---------------------------- MODULE Spec2Model ----------------------------
(***************************************************************************)
(* Model of the adaptive difficulty and matchmaking pipeline of puzzcode:  *)
(*   - DDASystem.adjust_difficulty            (src/DDA_Algo.py)            *)
(*   - clamp_beta and the tunable constants   (src/algo_config.py)         *)
(*   - get_success_rate / get_fail_rate       (src/IRT_Bases)              *)
(*   - MultiplayerMatchmaker.find_matches     (src/Multiplayer_Based.py)   *)
(*   - main, function find_matches    (src/algorithms/matchmaking.py)      *)
(*   - kmeans_from_irt                        (src/KMeans_Cluster.py)      *)
(*                                                                         *)
(* Three specifications share the variables: Spec follows one DDASystem    *)
(* through a sequence of adjust_difficulty calls, SpecMatch one run of     *)
(* the matchmaking script, SpecKMeans one call of kmeans_from_irt through  *)
(* the passes of its loops.                                                *)
(*                                                                         *)
(* Numbers.  The program computes with floats.  The model computes with    *)
(* fixed-point integers: the integer n stands for the real n / Scale, so   *)
(* 0.15 is 1500 and 1.0 is 10000.  A product is rounded to the nearest     *)
(* unit (Mul), round(x, 3) rounds to the nearest multiple of 10 units      *)
(* (Round3), tanh is computed by its series near 0 and by interpolation    *)
(* between exact knots elsewhere (Tanh).  The operators are monotone and   *)
(* odd wherever the float operations are.                                  *)
(***************************************************************************)
EXTENDS Integers, Sequences, FiniteSets, TLC

Scale == 10 * 1000

----------------------------------------------------------------------------
(* Fixed-point arithmetic *)

Abs(x) == IF x < 0 THEN -x ELSE x

Min(a, b) == IF a < b THEN a ELSE b

Max(a, b) == IF a > b THEN a ELSE b

\* a / b rounded to the nearest integer, halves away from zero (b > 0)
RDiv(a, b) == IF a >= 0 THEN (2 * a + b) \div (2 * b)
                        ELSE -((2 * (-a) + b) \div (2 * b))

\* the product of two fixed-point numbers
Mul(a, b) == RDiv(a * b, Scale)

\* round(x, 3): to the nearest multiple of 0.001, a half to the even multiple
Round3(x) ==
    LET q == x \div 10
        r == x % 10
    IN  IF r < 5 THEN 10 * q
        ELSE IF r > 5 THEN 10 * (q + 1)
        ELSE IF q % 2 = 0 THEN 10 * q ELSE 10 * (q + 1)

\* the integer of lo..hi nearest to the square root of n, by bisection
RECURSIVE SqrtIn(_, _, _)
SqrtIn(n, lo, hi) ==
    IF lo >= hi THEN lo
    ELSE LET mid == (lo + hi + 1) \div 2
         IN  IF (2 * mid - 1) * (2 * mid - 1) <= 4 * n
             THEN SqrtIn(n, mid, hi)
             ELSE SqrtIn(n, lo, mid - 1)

\* the integer nearest to the square root of n (n <= 40000)
RoundSqrt(n) == SqrtIn(n, 0, 256)

\* math.tanh on [0, oo): x - x^3/3 up to 0.25, then straight lines between
\* the values of tanh at 0.25, 0.5, 1, 2, 3 and 5; 1.0 from 5 on
TanhPos(x) ==
    LET Line(x0, y0, x1, y1) == y0 + RDiv((y1 - y0) * (x - x0), x1 - x0)
    IN  IF x <= 2500 THEN x - RDiv(((x * x) \div Scale) * x, 3 * Scale)
        ELSE IF x <= 5000 THEN Line(2500, 2449, 5000, 4621)
        ELSE IF x <= 10000 THEN Line(5000, 4621, 10000, 7616)
        ELSE IF x <= 20000 THEN Line(10000, 7616, 20000, 9640)
        ELSE IF x <= 30000 THEN Line(20000, 9640, 30000, 9951)
        ELSE IF x <= 50000 THEN Line(30000, 9951, 50000, 9999)
        ELSE Scale

Tanh(x) == IF x < 0 THEN -TanhPos(-x) ELSE TanhPos(x)

----------------------------------------------------------------------------
(* src/algo_config.py *)

BETA_MIN == 1000

BETA_MAX == 10000

STABILITY_THRESHOLD_DEFAULT == 500

MOMENTUM_FACTOR_DEFAULT == 6000

MAX_BETA_STEP == 1500

\* clamp_beta without its lower bound
clamp_beta_above_only(beta) ==
    IF beta > BETA_MAX THEN BETA_MAX ELSE beta

clamp_beta(beta) ==
    IF beta < BETA_MIN THEN BETA_MIN
    ELSE IF beta > BETA_MAX THEN BETA_MAX
    ELSE beta

----------------------------------------------------------------------------
(* src/IRT_Bases/Success.py, src/IRT_Bases/Fail.py *)

MAX_ATTEMPTS == 100

MAX_FAILS == 100

\* the bias (penalty) of the tier that holds `equiv`; both tables carry the
\* same numbers: 3..5 -> 0.02, 6..50 -> 0.05, 51..100 -> 0.10, else 0.00
TierBias(equiv) ==
    IF 3 <= equiv /\ equiv <= 5 THEN 200
    ELSE IF 6 <= equiv /\ equiv <= 50 THEN 500
    ELSE IF 51 <= equiv /\ equiv <= 100 THEN 1000
    ELSE 0

\* tier value + sqrt(normalized) * 0.02, rounded to 4 places, for every
\* count equivalent 0..100 (sqrt(c / 100) * 0.02 is sqrt(400 c) units)
DynamicBias == [c \in 0..MAX_ATTEMPTS |-> TierBias(c) + RoundSqrt(400 * c)]

\* get_success_rate: round(normalized, 4) and round(dynamic_bias, 4)
get_success_rate(success_count) ==
    LET count == IF success_count < 0 THEN 0 ELSE success_count
        capped == Min(count, MAX_ATTEMPTS)
    IN  [value |-> (capped * Scale) \div MAX_ATTEMPTS,
         bias  |-> DynamicBias[capped]]

\* get_fail_rate: round(normalized, 4) and round(dynamic_penalty, 4)
get_fail_rate(fail_count) ==
    LET count == IF fail_count < 0 THEN 0 ELSE fail_count
        capped == Min(count, MAX_FAILS)
    IN  [value   |-> (capped * Scale) \div MAX_FAILS,
         penalty |-> DynamicBias[capped]]

----------------------------------------------------------------------------
(* src/DDA_Algo.py: class DDASystem *)

\* self._previous_beta before the first adjustment
None == -1

\* DDASystem() and DDASystem(stability_threshold=0.05, momentum_factor=0.6)
stability_threshold == STABILITY_THRESHOLD_DEFAULT

momentum_factor == MOMENTUM_FACTOR_DEFAULT

\* dict.get(key, default)
Get(d, key, default) == IF key \in DOMAIN d THEN d[key] ELSE default

fetch_success_metrics(success_count) ==
    LET r == get_success_rate(success_count)
    IN  [success_rate |-> Round3(r.value),
         consistency  |-> Round3(Min(Scale, r.value + r.bias)),
         bias         |-> r.bias]

fetch_fail_metrics(fail_count) ==
    LET r == get_fail_rate(fail_count)
    IN  [fail_rate       |-> r.value,
         penalty         |-> r.penalty,
         normalized_fail |-> Round3(Min(Scale, r.value + r.penalty))]

sanitize_beta(beta_old) == clamp_beta(beta_old)

sanitize_counts(success_count, fail_count) ==
    <<Max(0, success_count), Max(0, fail_count)>>

Dict(fields) == [is_dict |-> TRUE, fields |-> fields]

\* an irt_output is [is_dict, fields]; a value that is no dict raises
SnapshotRaises(irt_output) == ~irt_output.is_dict

\* _extract_irt_snapshot with a probability of 0.0 for a missing one
extract_irt_snapshot_zero_default(irt_output) ==
    [probability |-> Get(irt_output.fields, "probability", 0),
     theta       |-> Get(irt_output.fields, "adjusted_theta", 0)]

extract_irt_snapshot(irt_output) ==
    [probability |-> Get(irt_output.fields, "probability", 5000),
     theta       |-> Get(irt_output.fields, "adjusted_theta", 0)]

calculate_behavior_weight(success_metrics, fail_metrics) ==
    RDiv(6 * success_metrics.success_rate
         + 4 * success_metrics.consistency
         - 5 * fail_metrics.penalty, 10)

calculate_sensitivity(theta) ==
    LET clamped_theta == Max(-3 * Scale, Min(3 * Scale, theta))
    IN  Scale - RDiv(clamped_theta, 6)

apply_behavior_weight(beta_adjustment, behavior_weight) ==
    Mul(beta_adjustment, Scale + RDiv(3 * behavior_weight, 10))

\* a gate that lets the adjustment through
enforce_stability_gate_open(performance_gap, beta_adjustment) ==
    beta_adjustment

enforce_stability_gate(performance_gap, beta_adjustment) ==
    IF Abs(performance_gap) < stability_threshold THEN 0
    ELSE beta_adjustment

\* the new value of self._momentum
next_momentum(momentum_old, beta_adjustment) ==
    Mul(momentum_factor, momentum_old)
    + Mul(Scale - momentum_factor, beta_adjustment)

\* the value _apply_momentum returns
apply_momentum(momentum_old, beta_adjustment) ==
    beta_adjustment + RDiv(next_momentum(momentum_old, beta_adjustment), 2)

\* a test `delta < self._stability_threshold` that never succeeds
recently_stable_never(prev_beta, beta_old) == FALSE

\* _slow_if_recently_stable, lines 141-144: whether the adjustment is
\* multiplied by 0.4
recently_stable(prev_beta, beta_old) ==
    /\ prev_beta # None
    /\ Abs(beta_old - prev_beta) < stability_threshold

slow_if_recently_stable(prev_beta, beta_old, beta_adjustment) ==
    IF recently_stable(prev_beta, beta_old)
    THEN RDiv(4 * beta_adjustment, 10)
    ELSE beta_adjustment

\* the nonlinear step subtracted instead of added
propose_beta_subtracting(beta_old, beta_adjustment) ==
    clamp_beta(beta_old - RDiv(8 * Tanh(beta_adjustment), 10))

propose_beta(beta_old, beta_adjustment) ==
    clamp_beta(beta_old + RDiv(8 * Tanh(beta_adjustment), 10))

\* _cap_step without the cap
cap_step_unlimited(beta_old, proposed) ==
    clamp_beta(proposed)

\* _cap_step with the direction of a capped step reversed
cap_step_reversed(beta_old, proposed) ==
    IF Abs(proposed - beta_old) > MAX_BETA_STEP
    THEN clamp_beta(beta_old
                    + (IF proposed > beta_old THEN -1 ELSE 1) * MAX_BETA_STEP)
    ELSE clamp_beta(proposed)

cap_step(beta_old, proposed) ==
    IF Abs(proposed - beta_old) > MAX_BETA_STEP
    THEN clamp_beta(beta_old
                    + (IF proposed > beta_old THEN 1 ELSE -1) * MAX_BETA_STEP)
    ELSE clamp_beta(proposed)

\* no guard: the capped update is kept
preserve_never(beta_old, beta_new, probability) ==
    beta_new

preserve_on_perfect_performance(beta_old, beta_new, probability) ==
    IF probability >= 9900 /\ beta_new < beta_old /\ beta_old >= 5000
    THEN beta_old
    ELSE beta_new

\* The pre-momentum adjustment of a call: lines 253-261.
gated_adjustment(snapshot, success_count, fail_count, target_performance, adjustment_rate) ==
    LET counts == sanitize_counts(success_count, fail_count)
        success_metrics == fetch_success_metrics(counts[1])
        fail_metrics == fetch_fail_metrics(counts[2])
        performance_gap == target_performance - snapshot.probability
        sensitivity == calculate_sensitivity(snapshot.theta)
        raw == Mul(Mul(adjustment_rate, performance_gap), sensitivity)
        behavior_weight ==
            calculate_behavior_weight(success_metrics, fail_metrics)
    IN  enforce_stability_gate(performance_gap,
                               apply_behavior_weight(raw, behavior_weight))

\* beta_new before the perfect-performance guard: lines 262-266.
capped_beta(prev_beta, momentum_old, beta_old, adjustment) ==
    LET with_momentum == apply_momentum(momentum_old, adjustment)
        slowed == slow_if_recently_stable(prev_beta, beta_old, with_momentum)
    IN  cap_step(beta_old, propose_beta(beta_old, slowed))

\* DDASystem.adjust_difficulty on a controller in state (prev_beta,
\* momentum_old): the new state and the response, or the TypeError.
adjust_difficulty(prev_beta, momentum_old, beta_old_in, irt_output, success_count, fail_count, target_performance, adjustment_rate) ==
    IF SnapshotRaises(irt_output)
    THEN [raised |-> TRUE, previous_beta |-> prev_beta,
          momentum |-> momentum_old, adjustment |-> 0, capped |-> 0,
          beta_new |-> 0, response_beta_new |-> 0]
    ELSE
    LET beta_old == sanitize_beta(beta_old_in)
        snapshot == extract_irt_snapshot(irt_output)
        adjustment == gated_adjustment(snapshot, success_count, fail_count,
                                       target_performance, adjustment_rate)
        capped == capped_beta(prev_beta, momentum_old, beta_old, adjustment)
        beta_new == preserve_on_perfect_performance(
                        beta_old, capped, snapshot.probability)
    IN  [raised            |-> FALSE,
         previous_beta     |-> beta_new,
         momentum          |-> next_momentum(momentum_old, adjustment),
         adjustment        |-> adjustment,
         capped            |-> capped,
         beta_new          |-> beta_new,
         response_beta_new |-> Round3(beta_new)]

----------------------------------------------------------------------------
(* src/IRT_Algo.py and src/Puzzel_Based.py *)

\* RANK_BIAS[0], the bias of get_rank_data(user_id) without a PlayerEXP
NOVICE_RANK_BIAS == -500

\* IRTModel.D
IRT_D == 17000

\* IRTModel._clamp
irt_clamp(value) == Max(-3 * Scale, Min(3 * Scale, value))

\* IRTModel.compute_confidence
compute_confidence(success_rate, fail_rate) ==
    LET confidence == Scale - Abs(success_rate - fail_rate)
    IN  Round3(Max(0, Min(confidence, Scale)))

\* IRTModel().decay_rate, 0.01
DECAY_RATE == 100

\* IRTModel.apply_learning_decay
apply_learning_decay(theta, sessions_played) ==
    LET decayed_theta == Mul(theta, Scale - DECAY_RATE * sessions_played)
    IN  Round3(irt_clamp(decayed_theta))

\* IRTModel._sigmoid
sigmoid(x) ==
    IF x < -20 * Scale THEN 0
    ELSE IF x > 20 * Scale THEN Scale
    ELSE RDiv(Scale + Tanh(RDiv(x, 2)), 2)

\* IRTModel.update_ability with learning_rate 0.05
update_ability(theta, success_count, fail_count) ==
    LET total == success_count + fail_count
    IN  IF total = 0 THEN theta
        ELSE irt_clamp(theta + RDiv((RDiv(success_count * Scale, total)
                                     - Scale \div 2) * 5, 100))

\* irt_probability(theta, beta, rank_name, completed_achievements,
\* success_count, fail_count, exp=None): the dict it returns, as far as
\* adjust_difficulty and run_puzzle_adjustment read it
irt_probability(theta_in, beta_in, completed_achievements_in, success_count_in, fail_count_in) ==
    LET theta == irt_clamp(theta_in)
        beta == Max(1000, Min(Scale, beta_in))
        success_count == Max(0, success_count_in)
        fail_count == Max(0, fail_count_in)
        completed_achievements == Max(0, completed_achievements_in)
        achievement_score == completed_achievements * 100
        success == get_success_rate(success_count)
        fail == get_fail_rate(fail_count)
        adjusted_theta ==
            update_ability(theta, success_count, fail_count)
            + NOVICE_RANK_BIAS + success.bias - fail.penalty
            + Min(RDiv(achievement_score, 100), 1000)
    IN  [probability |-> sigmoid(Mul(IRT_D, theta - beta)),
         adjusted_theta |-> irt_clamp(adjusted_theta)]

\* the arguments of run_puzzle_adjustment that callers set; rank_name,
\* completed_achievements, auto_sync, player_exp and exp keep their
\* defaults
PuzzleArgs(user_id, level_id, theta, beta_old, success_count, fail_count, target_performance, adjustment_rate) ==
    [user_id |-> user_id, level_id |-> level_id, theta |-> theta,
     beta_old |-> beta_old, success_count |-> success_count,
     fail_count |-> fail_count, target_performance |-> target_performance,
     adjustment_rate |-> adjustment_rate]

\* run_puzzle_adjustment, lines 60-86: the clamped arguments, which are the
\* cache key
input_key(args) ==
    PuzzleArgs(args.user_id, args.level_id,
               Max(-3 * Scale, Min(3 * Scale, args.theta)),
               clamp_beta(args.beta_old),
               Max(0, args.success_count), Max(0, args.fail_count),
               Max(0, Min(Scale, args.target_performance)),
               Max(0, Min(Scale, args.adjustment_rate)))

\* _last_inputs = {} and _last_result = None
NoKey == <<>>

NoResult == <<>>

\* run_puzzle_adjustment without the early return of lines 87-88
run_puzzle_adjustment_uncached(module, args) ==
    LET key == input_key(args)
        irt_result == irt_probability(key.theta, key.beta_old, 0,
                                      key.success_count, key.fail_count)
        dda == adjust_difficulty(module.previous_beta, module.momentum,
                                 key.beta_old, Dict(irt_result),
                                 key.success_count, key.fail_count,
                                 key.target_performance, key.adjustment_rate)
        combined_result ==
            [user_id |-> key.user_id, level_id |-> key.level_id,
             Student_Skill |-> Round3(irt_result.adjusted_theta),
             Predicted_Success_Probability |->
                 Round3(irt_result.probability),
             New_Beta |-> dda.response_beta_new]
    IN  [module |-> [previous_beta |-> dda.previous_beta,
                     momentum |-> dda.momentum,
                     last_inputs |-> key,
                     last_result |-> combined_result],
         result |-> combined_result]

\* run_puzzle_adjustment on the module state `module` = [previous_beta,
\* momentum (of _dda_system), last_inputs, last_result]: the state it
\* leaves and the result it returns
run_puzzle_adjustment(module, args) ==
    LET key == input_key(args)
        irt_result == irt_probability(key.theta, key.beta_old, 0,
                                      key.success_count, key.fail_count)
        dda == adjust_difficulty(module.previous_beta, module.momentum,
                                 key.beta_old, Dict(irt_result),
                                 key.success_count, key.fail_count,
                                 key.target_performance, key.adjustment_rate)
        combined_result ==
            [user_id |-> key.user_id, level_id |-> key.level_id,
             Student_Skill |-> Round3(irt_result.adjusted_theta),
             Predicted_Success_Probability |->
                 Round3(irt_result.probability),
             New_Beta |-> dda.response_beta_new]
    IN  IF key = module.last_inputs /\ module.last_result # NoResult
        THEN [module |-> module, result |-> module.last_result]
        ELSE [module |-> [previous_beta |-> dda.previous_beta,
                          momentum |-> dda.momentum,
                          last_inputs |-> key,
                          last_result |-> combined_result],
              result |-> combined_result]

----------------------------------------------------------------------------
(* src/Multiplayer_Based.py: MultiplayerMatchmaker                          *)
(*                                                                          *)
(* A player is given by the adjusted ability that prepare_player_data       *)
(* stores as profiles[i]["theta"], in hundredths (-300..300 after the       *)
(* clamp of irt_probability); min_match_score is in hundredths and a        *)
(* match_score in thousandths, the 3 places it is rounded to.  Players are  *)
(* named by their position in the input list, 1..n here for 0..n-1 there.   *)

\* round(a / b) for b > 0, ties to even
RoundRatio(a, b) ==
    LET q == a \div b
        r == a % b
    IN  IF 2 * r < b THEN q
        ELSE IF 2 * r > b THEN q + 1
        ELSE IF q % 2 = 0 THEN q
        ELSE q + 1

RECURSIVE SumOver(_, _)
\* sum(thetas[i] for i in group)
SumOver(group, thetas) ==
    IF group = <<>> THEN 0
    ELSE thetas[Head(group)] + SumOver(Tail(group), thetas)

RECURSIVE SquaresOver(_, _, _)
\* sum((len(group) * thetas[i] - total) ** 2 for i in group)
SquaresOver(group, thetas, total) ==
    IF group = <<>> THEN 0
    ELSE (total[1] * thetas[Head(group)] - total[2])
             * (total[1] * thetas[Head(group)] - total[2])
         + SquaresOver(Tail(group), thetas, total)

\* the variance of the abilities of a group, sum((t - mean) ** 2) / len,
\* as the fraction num / den of squared hundredths
variance(group, thetas) ==
    [num |-> SquaresOver(group, thetas,
                         <<Len(group), SumOver(group, thetas)>>),
     den |-> Len(group) * Len(group) * Len(group)]

\* (1.0 - min(variance * 4, 1.0)) * 10000 * den
balance(var) ==
    10000 * var.den - Min(4 * var.num, 10000 * var.den)

\* a _calculate_group_score that forgets to cap the variance at 1.0
calculate_group_score_uncapped(group, thetas) ==
    IF Len(group) < 2 THEN 0
    ELSE LET var == variance(group, thetas)
         IN  1000 - RoundRatio(4 * var.num, 10 * var.den)

calculate_group_score(group, thetas) ==
    IF Len(group) < 2 THEN 0
    ELSE LET var == variance(group, thetas)
         IN  RoundRatio(balance(var), 10 * var.den)

\* abs(theta of candidates[i] - theta of candidates[i + 1])
NeighbourDiff(candidates, thetas, i) ==
    Abs(thetas[candidates[i]] - thetas[candidates[i + 1]])

Window(candidates, start, match_size) ==
    SubSeq(candidates, start, start + match_size - 1)

\* the abilities of the window, in its order
WindowThetas(candidates, thetas, start, match_size) ==
    [i \in 1..match_size |-> thetas[candidates[start + i - 1]]]

\* The program breaks a tie between pairs (windows) of equal difference
\* (variance) by the rounding of its floating-point arithmetic: the first
\* of them wins unless rounding makes a later one, of other abilities,
\* smaller.  The model leaves the choice among those open.  The variance
\* of a single ability is computed as exactly 0, and so is the difference
\* of two equal abilities.
FirstOfItsKind(candidates, thetas, start, match_size) ==
    \A t \in 1..(start - 1) :
        /\ match_size > 1
        /\ WindowThetas(candidates, thetas, t, match_size)
               # WindowThetas(candidates, thetas, start, match_size)

\* a scan of the neighbouring pairs that replaces best_group on
\* `diff <= min_diff`: the last pair of the smallest difference
BestPairsAt_last(candidates, thetas) ==
    {i \in 1..(Len(candidates) - 1) :
        /\ \A j \in 1..(Len(candidates) - 1) :
               NeighbourDiff(candidates, thetas, i)
                   <= NeighbourDiff(candidates, thetas, j)
        /\ \A j \in (i + 1)..(Len(candidates) - 1) :
               NeighbourDiff(candidates, thetas, i)
                   < NeighbourDiff(candidates, thetas, j)}

\* the neighbouring pairs with the smallest difference that the scan
\* `if diff < min_diff` may end with
BestPairsAt(candidates, thetas) ==
    {i \in 1..(Len(candidates) - 1) :
        /\ \A j \in 1..(Len(candidates) - 1) :
               NeighbourDiff(candidates, thetas, i)
                   <= NeighbourDiff(candidates, thetas, j)
        /\ FirstOfItsKind(candidates, thetas, i, 2)
        /\ \A j \in 1..(i - 1) :
               NeighbourDiff(candidates, thetas, i) = 0
                   => NeighbourDiff(candidates, thetas, j) # 0}

\* the windows of match_size consecutive candidates with the smallest
\* variance
BestWindowsAt(candidates, thetas, match_size) ==
    {s \in 1..(Len(candidates) - match_size + 1) :
        /\ \A t \in 1..(Len(candidates) - match_size + 1) :
               variance(Window(candidates, s, match_size), thetas).num
                   <= variance(Window(candidates, t, match_size), thetas).num
        /\ FirstOfItsKind(candidates, thetas, s, match_size)}

\* _find_best_group_fast: the groups it may return; <<>> stands for None
find_best_group_fast(candidates, thetas, match_size, min_score) ==
    IF Len(candidates) < match_size THEN {<<>>}
    ELSE IF match_size = 2
    THEN {IF 100 - Min(NeighbourDiff(candidates, thetas, i), 100)
                 >= min_score
          THEN <<candidates[i], candidates[i + 1]>>
          ELSE <<>> : i \in BestPairsAt(candidates, thetas)}
    ELSE {LET best_group == Window(candidates, start, match_size)
              best_variance == variance(best_group, thetas)
          IN  IF 100 * balance(best_variance)
                     >= min_score * 10000 * best_variance.den
              THEN best_group
              ELSE <<>> :
          start \in BestWindowsAt(candidates, thetas, match_size)}

RECURSIVE InsertByTheta(_, _, _)
\* `i` put behind the entries of `sorted` whose ability is not larger
InsertByTheta(sorted, i, thetas) ==
    IF sorted = <<>> THEN <<i>>
    ELSE IF thetas[Head(sorted)] <= thetas[i]
    THEN <<Head(sorted)>> \o InsertByTheta(Tail(sorted), i, thetas)
    ELSE <<i>> \o sorted

RECURSIVE sort_by_theta(_, _)
\* sorted(indices, key=lambda i: profiles[i]["theta"]), a stable sort
sort_by_theta(indices, thetas) ==
    IF indices = <<>> THEN <<>>
    ELSE InsertByTheta(
             sort_by_theta(SubSeq(indices, 1, Len(indices) - 1), thetas),
             indices[Len(indices)], thetas)

Members(group) == {group[i] : i \in DOMAIN group}

\* [i for i in indices if i not in taken]
Without(indices, taken) ==
    LET Keep(i) == i \notin taken
    IN  SelectSeq(indices, Keep)

\* the players of range(len(players)), in order
AllIndices(n) == [i \in 1..n |-> i]

\* a cross-cluster pass that is handed nobody
remaining_players_none(thetas, matched_players) == <<>>

\* the players left for the cross-cluster pass, whoever is matched
\* already included
remaining_players_all(thetas, matched_players) ==
    sort_by_theta(AllIndices(Len(thetas)), thetas)

\* sorted([i for i in range(len(players)) if i not in matched_players],
\*        key=theta)
remaining_players(thetas, matched_players) ==
    sort_by_theta(Without(AllIndices(Len(thetas)), matched_players), thetas)

\* a pass without a group that removes nobody
drop_none(available) == available

\* available.pop(0), remaining.pop(0)
drop_first(available) == Tail(available)

\* an entry of the list find_matches returns; CrossCluster stands for the
\* cluster name "cross_cluster"
CrossCluster == -1

Match(group, cluster_id, thetas) ==
    [players |-> group,
     cluster |-> cluster_id,
     match_score |-> calculate_group_score(group, thetas)]

RECURSIVE form_groups(_, _, _, _, _)
\* the loop `while len(available) >= match_size` of either pass: the lists
\* of matches it may append
form_groups(available, cluster_id, thetas, match_size, min_match_score) ==
    IF Len(available) < match_size THEN {<<>>}
    ELSE UNION {
        IF match_group # <<>> /\ Len(match_group) = match_size
        THEN {<<Match(match_group, cluster_id, thetas)>> \o rest :
                 rest \in form_groups(
                              Without(available, Members(match_group)),
                              cluster_id, thetas, match_size,
                              min_match_score)}
        ELSE form_groups(drop_first(available), cluster_id, thetas,
                         match_size, min_match_score) :
        match_group \in find_best_group_fast(available, thetas, match_size,
                                             min_match_score)}

RECURSIVE MatchedBy(_)
\* the players of a list of matches
MatchedBy(matches) ==
    IF matches = <<>> THEN {}
    ELSE Members(Head(matches).players) \cup MatchedBy(Tail(matches))

RECURSIVE within_clusters(_, _, _, _, _, _)
\* the loop over sorted(cluster_map.items()), from cluster `cluster_id` on
within_clusters(cluster_id, assignments, thetas, match_size, min_match_score, matched_players) ==
    IF \A i \in DOMAIN assignments : assignments[i] < cluster_id THEN {<<>>}
    ELSE LET InCluster(i) == assignments[i] = cluster_id
             cluster_indices ==
                 sort_by_theta(SelectSeq(AllIndices(Len(thetas)), InCluster),
                               thetas)
             available == Without(cluster_indices, matched_players)
         IN  UNION {
                 {matches \o rest :
                     rest \in within_clusters(
                                  cluster_id + 1, assignments, thetas,
                                  match_size, min_match_score,
                                  matched_players \cup MatchedBy(matches))} :
                 matches \in form_groups(available, cluster_id, thetas,
                                         match_size, min_match_score)}

\* MultiplayerMatchmaker.find_matches, with the assignments that
\* cluster_players returned: the lists of matches it may return
find_matches(thetas, assignments, match_size, allow_cross_cluster, min_match_score) ==
    IF Len(thetas) < match_size THEN {<<>>}
    ELSE UNION {
        IF allow_cross_cluster
        THEN {matches \o cross :
                 cross \in form_groups(
                               remaining_players(thetas, MatchedBy(matches)),
                               CrossCluster, thetas, match_size,
                               min_match_score)}
        ELSE {matches} :
        matches \in within_clusters(0, assignments, thetas, match_size,
                                    min_match_score, {})}

\* cluster_players: effective_k, the number of clusters asked of k-means
effective_k(k_clusters, n) == Max(1, Min(k_clusters, n))

\* cluster_players: the assignments k-means may return for n players,
\* one cluster index below effective_k per player
ClusterAssignments(k_clusters, n) ==
    [1..n -> 0..(effective_k(k_clusters, n) - 1)]

\* what main prints and exits with
Output(success, error, matches) ==
    [success |-> success, error |-> error, matches |-> matches]

\* main without `if not players: raise ValueError`
main_unchecked(args, assignments) ==
    {Output(TRUE, "", matches) :
        matches \in find_matches(args.players, assignments, args.match_size,
                                 args.allow_cross_cluster,
                                 args.min_match_score)}

\* algorithms/matchmaking.py, main, function "find_matches": the outputs
\* it may print, given the assignments cluster_players returns
main(args, assignments) ==
    IF args.players = <<>>
    THEN {Output(FALSE, "players list cannot be empty", <<>>)}
    ELSE {Output(TRUE, "", matches) :
             matches \in find_matches(args.players, assignments,
                                      args.match_size,
                                      args.allow_cross_cluster,
                                      args.min_match_score)}

----------------------------------------------------------------------------
(* src/KMeans_Cluster.py                                                    *)
(*                                                                          *)
(* A coordinate is a number of 1/10000, a squared distance a number of      *)
(* 1e-8.  A feature that no item of irt_data carries is 0.0 for every       *)
(* point and adds nothing to a distance.                                    *)

RECURSIVE SquaredDistanceUpTo(_, _, _)
SquaredDistanceUpTo(a, b, n) ==
    IF n = 0 THEN 0
    ELSE (a[n] - b[n]) * (a[n] - b[n]) + SquaredDistanceUpTo(a, b, n - 1)

\* sum(d * d for x, y in zip(a, b))
squared_distance(a, b) == SquaredDistanceUpTo(a, b, Min(Len(a), Len(b)))

RECURSIVE SumOfDim(_, _)
\* sum(point[i] for point in points)
SumOfDim(points, i) ==
    IF points = <<>> THEN 0
    ELSE Head(points)[i] + SumOfDim(Tail(points), i)

\* compute_centroid returning the first point of the cluster
compute_centroid_first_point(points) ==
    IF points = <<>> THEN <<>> ELSE points[1]

compute_centroid(points) ==
    IF points = <<>> THEN <<>>
    ELSE [i \in DOMAIN points[1] |-> RDiv(SumOfDim(points, i), Len(points))]

\* the smallest (largest) value of dimension i
MinOfDim(data, i) ==
    CHOOSE v \in {data[j][i] : j \in DOMAIN data} :
        \A j \in DOMAIN data : v <= data[j][i]

MaxOfDim(data, i) ==
    CHOOSE v \in {data[j][i] : j \in DOMAIN data} :
        \A j \in DOMAIN data : v >= data[j][i]

normalize_data(data) ==
    IF data = <<>> THEN data
    ELSE [j \in DOMAIN data |->
             [i \in DOMAIN data[1] |->
                 IF MaxOfDim(data, i) = MinOfDim(data, i) THEN 0
                 ELSE RDiv((data[j][i] - MinOfDim(data, i)) * Scale,
                           MaxOfDim(data, i) - MinOfDim(data, i))]]

\* kmeans_from_irt, lines 140-148: the feature vector of an item
feature_vector(item) ==
    <<Get(item, "adjusted_theta", 0), Get(item, "probability", 0),
      Get(item, "success_rate", 0), Get(item, "fail_rate", 0)>>

\* MultiplayerMatchmaker.__init__: k_clusters
K_CLUSTERS_DEFAULT == 3

\* hash() of a number, up to the collisions of values in reach:
\* hash(-1.0) == hash(-2.0) == -2
hash_number(x) == IF x = -Scale THEN -2 * Scale ELSE x

\* cluster_players, lines 123-126: the hash of the tuple of
\* (adjusted_theta, probability) pairs, which combines the hashes of the
\* numbers in order
cache_key(irt_data) ==
    [j \in DOMAIN irt_data |->
        <<hash_number(Get(irt_data[j], "adjusted_theta", 0)),
          hash_number(Get(irt_data[j], "probability", 0))>>]

\* the squared distance of pt to the nearest of the centroids
MinSquaredDistance(pt, centroids) ==
    CHOOSE d \in {squared_distance(pt, centroids[c]) :
                     c \in DOMAIN centroids} :
        \A c \in DOMAIN centroids : d <= squared_distance(pt, centroids[c])

\* init_kmeans_plus_plus, lines 102-111: sum(min_dist_sq)
RECURSIVE TotalMinSquaredDistance(_, _)
TotalMinSquaredDistance(data, centroids) ==
    IF data = <<>> THEN 0
    ELSE MinSquaredDistance(Head(data), centroids)
         + TotalMinSquaredDistance(Tail(data), centroids)

\* init_kmeans_plus_plus, lines 112-126: the centroids one pass of the
\* loop may append, <<>> for none.  random.random() * total is any number
\* from 0 to below total: 0 takes the first point, anything else a point
\* away from every centroid.
NextSeeds(data, centroids) ==
    IF TotalMinSquaredDistance(data, centroids) = 0
    THEN LET remaining ==
                 {data[j] : j \in {i \in DOMAIN data :
                     \A c \in DOMAIN centroids : data[i] # centroids[c]}}
         IN  IF remaining # {} THEN remaining ELSE {<<>>}
    ELSE {data[1]}
         \cup {data[j] : j \in {i \in DOMAIN data :
                  MinSquaredDistance(data[i], centroids) > 0}}

\* kmeans_from_irt, lines 166-174: the index of the nearest centroid, the
\* first of them on a tie
nearest_centroid(pt, centroids) ==
    (CHOOSE c \in DOMAIN centroids :
        \A d \in DOMAIN centroids :
            \/ squared_distance(pt, centroids[c])
                   < squared_distance(pt, centroids[d])
            \/ /\ squared_distance(pt, centroids[c])
                      = squared_distance(pt, centroids[d])
               /\ c <= d) - 1

assign_points(data, centroids) ==
    [j \in DOMAIN data |-> nearest_centroid(data[j], centroids)]

\* clusters[c]: the points assigned to the centroid of index c
cluster_points(data, assignments, c) ==
    LET InCluster(j) == assignments[j] = c
    IN  [m \in DOMAIN SelectSeq([j \in DOMAIN data |-> j], InCluster) |->
            data[SelectSeq([j \in DOMAIN data |-> j], InCluster)[m]]]

\* kmeans_from_irt, lines 178-184: the lists new_centroids may be, one
\* entry per cluster of range(k), a point of the data for an empty one
NewCentroids(data, assignments, k) ==
    {nc \in [1..k -> {data[j] : j \in DOMAIN data}
                     \cup {compute_centroid(cluster_points(data, assignments,
                                                           c - 1)) :
                              c \in 1..k}] :
        \A c \in 1..k :
            IF cluster_points(data, assignments, c - 1) # <<>>
            THEN nc[c] = compute_centroid(
                             cluster_points(data, assignments, c - 1))
            ELSE nc[c] \in {data[j] : j \in DOMAIN data}}

RECURSIVE ShiftUpTo(_, _, _)
ShiftUpTo(centroids, new_centroids, n) ==
    IF n = 0 THEN 0
    ELSE squared_distance(centroids[n], new_centroids[n])
         + ShiftUpTo(centroids, new_centroids, n - 1)

\* sum(squared_distance(a, b) for a, b in zip(centroids, new_centroids))
shift_sq(centroids, new_centroids) ==
    ShiftUpTo(centroids, new_centroids,
              Min(Len(centroids), Len(new_centroids)))

----------------------------------------------------------------------------
(* src/SkillBasedMatchMaking.py: a data point is a [theta, beta] pair,      *)
(* players and clusters are numbered from 0                                 *)

normalize(value, min_val, max_val) ==
    IF max_val = min_val THEN Scale \div 2
    ELSE Max(0, Min(Scale, RDiv((value - min_val) * Scale,
                                max_val - min_val)))

\* the pair (w_theta, w_beta)
adaptive_weights(consistency) ==
    LET w_theta == Max(4000, Scale - consistency)
        w_beta == Min(6000, consistency + 3000)
    IN  <<RDiv(w_theta * Scale, w_theta + w_beta),
          RDiv(w_beta * Scale, w_theta + w_beta)>>

calculate_match_score(theta_a, theta_b, beta_a, beta_b, w_theta, w_beta) ==
    Round3(Scale - Min(Mul(w_theta, Abs(theta_a - theta_b))
                       + Mul(w_beta, Abs(beta_a - beta_b)), Scale))

\* assign_clusters: clusters[c], the players nearest to centroid c, in
\* the order of their indices
assign_clusters(data_points, centroids, c) ==
    LET InCluster(idx) ==
            nearest_centroid(data_points[idx + 1], centroids) = c
    IN  SelectSeq([j \in DOMAIN data_points |-> j - 1], InCluster)

\* find_best_match, lines 126-135: the populated cluster nearest to the
\* player's point, the first of them in the order of the centroids when
\* several are as near (list.sort is stable)
nearest_populated(player_point, data_points, centroids) ==
    LET populated == {c \in 0..(Len(centroids) - 1) :
                         assign_clusters(data_points, centroids, c) # <<>>}
        dist(c) == squared_distance(player_point, centroids[c + 1])
    IN  CHOOSE c \in populated :
            \A d \in populated :
                dist(c) < dist(d) \/ (dist(c) = dist(d) /\ c <= d)

\* find_best_match, lines 150-155: the first candidate of the best score
RECURSIVE best_of(_, _, _, _)
best_of(candidates, score, best_match, best_score) ==
    IF candidates = <<>>
    THEN [match_index |-> best_match, match_score |-> best_score]
    ELSE IF score[Head(candidates)] > best_score
         THEN best_of(Tail(candidates), score, Head(candidates),
                      score[Head(candidates)])
         ELSE best_of(Tail(candidates), score, best_match, best_score)

\* find_best_match on _dda_instance in the state (prev_beta, momentum_old):
\* what it returns and the state it leaves
find_best_match(prev_beta, momentum_old, player_index, data_points, centroids, completed_achievements, success_count, fail_count) ==
    LET theta == data_points[player_index + 1][1]
        beta_old == data_points[player_index + 1][2]
        irt_result == irt_probability(theta, beta_old,
                                      completed_achievements,
                                      success_count, fail_count)
        dda == adjust_difficulty(prev_beta, momentum_old, beta_old,
                                 Dict(irt_result), success_count,
                                 fail_count, 7000, 1000)
        player_point == data_points[player_index + 1]
        player_cluster == nearest_centroid(player_point, centroids)
        IsOther(idx) == idx # player_index
        own == SelectSeq(assign_clusters(data_points, centroids,
                                         player_cluster), IsOther)
        candidates ==
            IF own # <<>> THEN own
            ELSE assign_clusters(data_points, centroids,
                                 nearest_populated(player_point,
                                                   data_points, centroids))
        total_attempts == success_count + fail_count
        consistency ==
            IF total_attempts > 0
            THEN normalize(RDiv(success_count * Scale, total_attempts),
                           0, Scale)
            ELSE Scale \div 2
        w == adaptive_weights(consistency)
        score == [idx \in 0..(Len(data_points) - 1) |->
                     calculate_match_score(
                         irt_result.adjusted_theta,
                         data_points[idx + 1][1], dda.response_beta_new,
                         data_points[idx + 1][2], w[1], w[2])]
        best == best_of(candidates, score, None, -Scale)
    IN  IF Len(data_points) < 2
        THEN [previous_beta |-> prev_beta, momentum |-> momentum_old,
              player_index |-> player_index, match_index |-> None,
              match_score |-> 0, cluster |-> None]
        ELSE [previous_beta |-> dda.previous_beta,
              momentum |-> dda.momentum,
              player_index |-> player_index,
              match_index |-> best.match_index,
              match_score |-> Round3(best.match_score),
              cluster |-> player_cluster]

----------------------------------------------------------------------------
(* The controller as a state machine *)

VARIABLES
    previous_beta,   \* DDASystem._previous_beta (None before the first call)
    momentum,        \* DDASystem._momentum
    calls,           \* adjust_difficulty calls made so far
    last,            \* the last call: its arguments, the state it started
                     \* from and what it returned
    matchmaking,     \* the matchmaking request served: its arguments, the
                     \* clustering it worked with and its output
    kmeans,          \* a call of kmeans_from_irt: its arguments, where it
                     \* stands, its local variables and what it returned
    threads,         \* the request threads of the backend inside
                     \* dda_system.adjust_difficulty: where each stands and
                     \* its local variables
    puzzle,          \* Puzzel_Based: _last_inputs and _last_result, the
                     \* last call of run_puzzle_adjustment, and what each
                     \* player's calls give on a module of their own
    cluster,         \* matchmaker._clustering_cache and the call of
                     \* cluster_players under way or last returned
    best,            \* a call of find_best_match: its arguments and what it
                     \* returned
    pool,            \* a call of find_matches taken pass by pass: its
                     \* arguments, the loop it is in, the candidates still
                     \* available, the matches so far and the last pass
    irt,             \* the last call of a method of IRTModel(): the method,
                     \* its arguments and what it returned
    puzzle_threads   \* the request threads of the backend inside
                     \* run_puzzle_adjustment: where each stands, its local
                     \* variables and what its last call returned

dda_vars == <<previous_beta, momentum, calls, last>>

vars == <<previous_beta, momentum, calls, last, matchmaking, kmeans, threads, puzzle, cluster, best, pool, irt, puzzle_threads>>

\* what the actions of one specification leave alone
not_dda == <<matchmaking, kmeans, threads, puzzle, cluster, best, pool, irt, puzzle_threads>>

not_matchmaking == <<previous_beta, momentum, calls, last, kmeans, threads, puzzle, cluster, best, pool, irt, puzzle_threads>>

not_kmeans == <<previous_beta, momentum, calls, last, matchmaking, threads, puzzle, cluster, best, pool, irt, puzzle_threads>>

not_threads == <<calls, last, matchmaking, kmeans, puzzle, cluster, best, pool, irt, puzzle_threads>>

not_puzzle == <<calls, last, matchmaking, kmeans, threads, cluster, best, pool, irt, puzzle_threads>>

not_cluster == <<previous_beta, momentum, calls, last, matchmaking, threads, puzzle, best, pool, irt, puzzle_threads>>

not_best == <<calls, last, matchmaking, kmeans, threads, puzzle, cluster, pool, irt, puzzle_threads>>

not_pool == <<previous_beta, momentum, calls, last, matchmaking, kmeans, threads, puzzle, cluster, best, irt, puzzle_threads>>

not_irt == <<previous_beta, momentum, calls, last, matchmaking, kmeans, threads, puzzle, cluster, best, pool, puzzle_threads>>

not_puzzle_threads == <<calls, last, matchmaking, kmeans, threads, cluster, best, pool, irt>>

\* the number of adjust_difficulty calls explored on one controller
MaxCalls == 2

BetaOlds == {500, 5006, 9000, 12000}

Probabilities == {2000, 6800, 8000, 9900}

Targets == {7000, 9000}

Rates == {1000, 10000}

IrtOutput(probability, theta) ==
    Dict([probability |-> probability, adjusted_theta |-> theta])

Request(beta_old, irt_output, success_count, fail_count, target_performance, adjustment_rate) ==
    [beta_old |-> beta_old, irt_output |-> irt_output,
     success_count |-> success_count, fail_count |-> fail_count,
     target_performance |-> target_performance,
     adjustment_rate |-> adjustment_rate]

\* every combination of difficulty, probability, target and rate for a
\* player of ability 0 with 0 successes and 5 failures
GridRequests ==
    {Request(b, IrtOutput(p, 0), 0, 5, t, r) :
        b \in BetaOlds, p \in Probabilities, t \in Targets, r \in Rates}

\* the calls of src/tests/test_dda.py
TestRequests ==
    {Request(5000, IrtOutput(0, 0), 1, 0, 9000, 10000),
     Request(7000, IrtOutput(10000, 0), 0, 1, 5000, 10000),
     Request(5000, IrtOutput(10000, 0), 5, 0, 7000, 1000),
     Request(5000, IrtOutput(2000, 0), 0, 5, 7000, 2000),
     Request(5000, IrtOutput(8000, 0), 5, 0, 7000, 2000)}

\* an ability outside [-3, 3], a snapshot without a probability, one
\* without an ability, a snapshot that is no dict, and negative counts with
\* a probability of 1.5
OddRequests ==
    {Request(4000, IrtOutput(15000, 0), -3, -2, 7000, 1000),
     Request(5006, IrtOutput(2000, 42000), 5, 0, 7000, 1000),
     Request(5006, IrtOutput(6800, 42000), 60, 3, 7000, 10000),
     Request(5006, Dict([adjusted_theta |-> 0]), 5, 0, 7000, 1000),
     Request(5006, Dict([probability |-> 2000]), 5, 0, 7000, 1000),
     Request(5006, [is_dict |-> FALSE, fields |-> <<>>], 5, 0, 7000, 1000)}

Requests == GridRequests \cup TestRequests \cup OddRequests

NoCall ==
    [called |-> FALSE, raised |-> FALSE,
     request |-> Request(0, Dict(<<>>), 0, 0, 0, 0),
     pre_previous_beta |-> None, pre_momentum |-> 0,
     adjustment |-> 0, capped |-> 0, beta_new |-> 0, response_beta_new |-> 0]

\* the players of a matchmaking request, at most MaxPlayers of them
MaxPlayers == 4

\* the group sizes asked for, 1..MaxMatchSize
MaxMatchSize == 3

Thetas == {0, 40, 150}

PlayerLists == UNION {[1..n -> Thetas] : n \in 0..MaxPlayers}

MinMatchScores == {0, 50, 120}

KClusters == {1, 2}

MatchArgs(players, match_size, allow_cross_cluster, min_match_score, k_clusters) ==
    [players |-> players, match_size |-> match_size,
     allow_cross_cluster |-> allow_cross_cluster,
     min_match_score |-> min_match_score, k_clusters |-> k_clusters]

NoMatchmaking ==
    [called |-> FALSE, via |-> "", args |-> MatchArgs(<<>>, 0, FALSE, 0, 0),
     assignments |-> <<>>, success |-> FALSE, error |-> "",
     matches |-> <<>>]

\* the players of a find_matches call that is followed pass by pass, at
\* most MaxPoolPlayers of them
MaxPoolPlayers == 3

\* their abilities, listed in ascending order: find_matches sorts the
\* players by ability with a stable sort before every loop, so that a list
\* in another order, with its cluster assignments, goes through the passes
\* of the sorted list with the players renumbered
PoolPlayerLists ==
    {players \in UNION {[1..n -> Thetas] : n \in 0..MaxPoolPlayers} :
        \A i \in 1..(Len(players) - 1) : players[i] <= players[i + 1]}

\* find_matches before it is called: pc is the loop it is in, step the
\* last step taken, before and group the candidates the last pass started
\* with and the group (<<>> for none) it accepted
NoPool ==
    [pc |-> "idle", step |-> "", args |-> MatchArgs(<<>>, 0, FALSE, 0, 0),
     assignments |-> <<>>, cluster_id |-> 0, available |-> <<>>,
     matches |-> <<>>, before |-> <<>>, group |-> <<>>]

\* the success and fail rates compute_confidence is called with: 0.0,
\* 0.05, ..., 1.0
ConfidenceRates == {500 * i : i \in 0..20}

\* the abilities apply_learning_decay is called with: -3.0, -2.75, ...,
\* 3.0, and two that are no multiple of 0.001
DecayThetas == {2500 * i : i \in -12..12} \cup {1236, -20004}

\* sessions_played of the calls of apply_learning_decay
DecaySessions == {0, 10, 50, 100, 150, 300}

NoIrt == [method |-> "", args |-> <<>>, result |-> 0]

\* the points of a clustering call, at most MaxPoints of them
MaxPoints == 3

\* the numbers of clusters asked for, 1..MaxK
MaxK == 3

\* the largest max_iter of the clustering calls
MaxIter == 3

\* max_iter of a call of kmeans_from_irt: one pass, or MaxIter of them
MaxIters == {1, MaxIter}

IrtItems ==
    {[adjusted_theta |-> 0, probability |-> 2000],
     [adjusted_theta |-> 10000, probability |-> 2000],
     [adjusted_theta |-> 30000, probability |-> 8000],
     [adjusted_theta |-> 10000]}

IrtLists == UNION {[1..n -> IrtItems] : n \in 0..MaxPoints}

NoKMeans ==
    [pc |-> "idle", irt_data |-> <<>>, k |-> 0, max_iter |-> 0,
     data_points |-> <<>>, centroids |-> <<>>, assignments |-> <<>>,
     iteration |-> 0, raised |-> FALSE, ended |-> "", converged_after |-> 0]

\* the request threads that share dda_system
Threads == {1, 2}

\* the requests the threads serve
ThreadRequests == TestRequests \cup OddRequests

NoThread ==
    [pc |-> "idle", request |-> Request(0, Dict(<<>>), 0, 0, 0, 0),
     raised |-> FALSE, beta_old |-> 0, adjustment |-> 0,
     with_momentum |-> 0, beta_new |-> 0, response_beta_new |-> 0]

\* the calls of run_puzzle_adjustment in one run, at most
MaxPuzzleCalls == 2

UserIds == {"alice", "bob"}

\* abilities, one beyond the clamp at 3.0
PuzzleThetas == {0, 12000, 42000}

PuzzleBetaOlds == {5000, 9000}

PuzzleCounts == {<<0, 0>>, <<5, 1>>}

PuzzleRequests ==
    {PuzzleArgs(u, "level", th, b, c[1], c[2], 7000, r) :
        u \in UserIds, th \in PuzzleThetas, b \in PuzzleBetaOlds,
        c \in PuzzleCounts, r \in Rates}

\* the module after import: _dda_system = DDASystem(...), no cached result
NewModule ==
    [previous_beta |-> None, momentum |-> 0,
     last_inputs |-> NoKey, last_result |-> NoResult]

NoPuzzle ==
    [last_inputs |-> NoKey, last_result |-> NoResult, calls |-> 0,
     alone |-> [u \in UserIds |-> NewModule],
     called |-> FALSE, cached |-> FALSE,
     args |-> PuzzleArgs("", "", 0, 0, 0, 0, 0, 0),
     result |-> NoResult, alone_result |-> NoResult]

\* the calls of run_puzzle_adjustment that the request threads make, at
\* most
MaxThreadPuzzleCalls == 3

\* the requests of the threads: one player, abilities 0.0, 3.0 and 4.2
\* (which is clamped to 3.0)
ThreadPuzzleRequests ==
    {PuzzleArgs("alice", "level", th, 5000, 0, 0, 7000, 1000) :
        th \in {0, 30000, 42000}}

\* a thread outside run_puzzle_adjustment.  input_key, key_read and
\* dda_result are its local variables, result what its last call returned,
\* cached whether that was _last_result, computed_for the input_key of
\* the call that built the result returned
NoPuzzleThread ==
    [pc |-> "idle", input_key |-> NoKey, key_read |-> NoKey,
     dda_result |-> 0, returned |-> FALSE, cached |-> FALSE,
     result |-> NoResult, computed_for |-> NoKey]

\* before any call: result_for is the input_key of the call that built
\* _last_result
NoPuzzleThreads ==
    [calls |-> 0, result_for |-> NoKey,
     of |-> [t \in Threads |-> NoPuzzleThread]]

\* the calls of cluster_players on one matchmaker, at most
MaxClusterCalls == 2

\* two players of one ability and probability whose success and fail rates
\* differ, and players of ability -1.0 and -2.0
ClusterItems ==
    {[adjusted_theta |-> 30000, probability |-> 9000,
      success_rate |-> 10000, fail_rate |-> 0],
     [adjusted_theta |-> 30000, probability |-> 9000,
      success_rate |-> 9091, fail_rate |-> 909],
     [adjusted_theta |-> -10000, probability |-> 2000,
      success_rate |-> 5000, fail_rate |-> 5000],
     [adjusted_theta |-> -20000, probability |-> 2000,
      success_rate |-> 5000, fail_rate |-> 5000]}

\* a batch larger than the number of clusters
FourPlayers ==
    <<[adjusted_theta |-> 30000, probability |-> 9000,
       success_rate |-> 10000, fail_rate |-> 0],
      [adjusted_theta |-> 0, probability |-> 5000,
       success_rate |-> 5000, fail_rate |-> 5000],
      [adjusted_theta |-> 10000, probability |-> 7000,
       success_rate |-> 5000, fail_rate |-> 5000],
      [adjusted_theta |-> 30000, probability |-> 9000,
       success_rate |-> 9091, fail_rate |-> 909]>>

\* the batches: none, any of the items alone or followed by another
\* player, and the batch of four
ClusterBatches ==
    {<<>>, FourPlayers}
    \cup {<<x>> : x \in ClusterItems}
    \cup {<<x, [adjusted_theta |-> 0, probability |-> 5000,
                success_rate |-> 5000, fail_rate |-> 5000]>> :
              x \in ClusterItems}

\* matchmaker = MultiplayerMatchmaker(): an empty cache, no call yet
NoCluster ==
    [pc |-> "idle", calls |-> 0, cache |-> {}, batch |-> <<>>,
     returned |-> FALSE, raised |-> FALSE, hit |-> FALSE,
     cached_for |-> <<>>, result |-> <<>>]

\* the data points and the centroids of a find_best_match request:
\* [theta, beta] pairs, up to MaxPlayers players and MaxCentroids centroids
MaxCentroids == 2

DataPoints == {<<0, 5000>>, <<10000, 5000>>, <<-10000, 3000>>}

Centroids == {<<0, 5000>>, <<10000, 4000>>}

NoBestMatch ==
    [called |-> FALSE, data_points |-> <<>>, centroids |-> <<>>,
     success_count |-> 0, fail_count |-> 0,
     player_index |-> 0, match_index |-> None, match_score |-> 0,
     cluster |-> None]

\* dda = DDASystem(); no matchmaking request and no clustering call yet
Init ==
    /\ previous_beta = None
    /\ momentum = 0
    /\ calls = 0
    /\ last = NoCall
    /\ matchmaking = NoMatchmaking
    /\ kmeans = NoKMeans
    /\ threads = [t \in Threads |-> NoThread]
    /\ puzzle = NoPuzzle
    /\ cluster = NoCluster
    /\ best = NoBestMatch
    /\ pool = NoPool
    /\ irt = NoIrt
    /\ puzzle_threads = NoPuzzleThreads

\* dda.adjust_difficulty(beta_old, irt_output, success_count, fail_count,
\*                       target_performance, adjustment_rate)
AdjustDifficulty ==
    /\ calls < MaxCalls
    /\ \E req \in Requests :
        \E r \in {adjust_difficulty(previous_beta, momentum, req.beta_old,
                                    req.irt_output, req.success_count,
                                    req.fail_count, req.target_performance,
                                    req.adjustment_rate)} :
            /\ previous_beta' = r.previous_beta
            /\ momentum' = r.momentum
            /\ calls' = calls + 1
            /\ last' = [called |-> TRUE, raised |-> r.raised,
                        request |-> req,
                        pre_previous_beta |-> previous_beta,
                        pre_momentum |-> momentum,
                        adjustment |-> r.adjustment, capped |-> r.capped,
                        beta_new |-> r.beta_new,
                        response_beta_new |-> r.response_beta_new]
    /\ UNCHANGED not_dda

Next == AdjustDifficulty

Spec == Init /\ [][Next]_vars

----------------------------------------------------------------------------
(* A caller that passes each difficulty returned by the controller as the   *)
(* beta_old of its next call, as the loop of Tester/backend.py's clients do *)

\* the first call of the caller
FirstCall ==
    /\ calls = 0
    /\ AdjustDifficulty

\* a later call: beta_old is the beta_new of the response to the call
\* before
FedBackCall ==
    /\ calls > 0
    /\ calls < MaxCalls
    /\ ~last.raised
    /\ \E req \in Requests :
        \E fed \in {[req EXCEPT !.beta_old = last.response_beta_new]} :
            \E r \in {adjust_difficulty(previous_beta, momentum, fed.beta_old,
                                        fed.irt_output, fed.success_count,
                                        fed.fail_count,
                                        fed.target_performance,
                                        fed.adjustment_rate)} :
                /\ previous_beta' = r.previous_beta
                /\ momentum' = r.momentum
                /\ calls' = calls + 1
                /\ last' = [called |-> TRUE, raised |-> r.raised,
                            request |-> fed,
                            pre_previous_beta |-> previous_beta,
                            pre_momentum |-> momentum,
                            adjustment |-> r.adjustment,
                            capped |-> r.capped,
                            beta_new |-> r.beta_new,
                            response_beta_new |-> r.response_beta_new]
    /\ UNCHANGED not_dda

NextFedBack == FirstCall \/ FedBackCall

SpecFedBack == Init /\ [][NextFedBack]_vars

----------------------------------------------------------------------------
(* Matchmaking requests *)

\* algorithms/matchmaking.py, main, function "find_matches": one run of
\* the script on the JSON read from stdin
MainFindMatches ==
    /\ ~matchmaking.called
    /\ \E players \in PlayerLists, match_size \in 1..MaxMatchSize,
          allow_cross_cluster \in BOOLEAN,
          min_match_score \in MinMatchScores, k_clusters \in KClusters :
        \E assignments \in ClusterAssignments(k_clusters, Len(players)) :
            \E args \in {MatchArgs(players, match_size, allow_cross_cluster,
                                   min_match_score, k_clusters)} :
                \E output \in main(args, assignments) :
                    matchmaking' = [called |-> TRUE, via |-> "main",
                                    args |-> args,
                                    assignments |-> assignments,
                                    success |-> output.success,
                                    error |-> output.error,
                                    matches |-> output.matches]
    /\ UNCHANGED not_matchmaking

NextMatch == MainFindMatches

SpecMatch == Init /\ [][NextMatch]_vars

----------------------------------------------------------------------------
(* MultiplayerMatchmaker.find_matches, one pass of its loops at a time      *)

\* the clusters of sorted(cluster_map.items()) that come after cluster_id
LaterClusters(assignments, cluster_id) ==
    {assignments[i] : i \in DOMAIN assignments} \ (CrossCluster..cluster_id)

\* the head of the loop over sorted(cluster_map.items()) for cluster_id:
\* cluster_indices.sort(key=theta) and available
EnterCluster(p, cluster_id) ==
    LET InCluster(i) == p.assignments[i] = cluster_id
        cluster_indices ==
            sort_by_theta(SelectSeq(AllIndices(Len(p.args.players)),
                                    InCluster),
                          p.args.players)
    IN  [p EXCEPT !.pc = "within", !.cluster_id = cluster_id,
                  !.available =
                      Without(cluster_indices, MatchedBy(p.matches))]

\* find_matches up to the first pass: the early return, or
\* prepare_player_data, cluster_players and the head of the first cluster
FindMatchesBegin ==
    /\ pool.pc = "idle"
    /\ \E players \in PoolPlayerLists, match_size \in 1..MaxMatchSize,
          allow_cross_cluster \in BOOLEAN,
          min_match_score \in MinMatchScores, k_clusters \in KClusters :
        \E assignments \in ClusterAssignments(k_clusters, Len(players)) :
            \E p \in {[NoPool EXCEPT
                          !.step = "begin",
                          !.args = MatchArgs(players, match_size,
                                             allow_cross_cluster,
                                             min_match_score, k_clusters),
                          !.assignments = assignments]} :
                pool' = IF Len(players) < match_size
                        THEN [p EXCEPT !.pc = "returned"]
                        ELSE EnterCluster(
                                 p, CHOOSE c \in LaterClusters(assignments,
                                                               CrossCluster) :
                                        \A d \in LaterClusters(assignments,
                                                               CrossCluster) :
                                            c <= d)
    /\ UNCHANGED not_pool

\* one pass of `while len(available) >= match_size`, of the loop within a
\* cluster or of the cross-cluster loop
Pass ==
    /\ pool.pc \in {"within", "cross"}
    /\ Len(pool.available) >= pool.args.match_size
    /\ \E match_group \in find_best_group_fast(pool.available,
                                               pool.args.players,
                                               pool.args.match_size,
                                               pool.args.min_match_score) :
        pool' = IF match_group # <<>>
                   /\ Len(match_group) = pool.args.match_size
                THEN [pool EXCEPT
                         !.step = "pass",
                         !.before = pool.available,
                         !.group = match_group,
                         !.matches =
                             Append(@, Match(match_group, pool.cluster_id,
                                             pool.args.players)),
                         !.available = Without(@, Members(match_group))]
                ELSE [pool EXCEPT
                         !.step = "pass",
                         !.before = pool.available,
                         !.group = <<>>,
                         !.available = drop_first(@)]
    /\ UNCHANGED not_pool

\* the end of a while loop: on to the next cluster, then to the
\* cross-cluster loop if it is enabled, then `return matches`
NextLoop ==
    /\ pool.pc \in {"within", "cross"}
    /\ Len(pool.available) < pool.args.match_size
    /\ \E p \in {[pool EXCEPT !.step = "next", !.before = <<>>,
                                !.group = <<>>]} :
        pool' = IF pool.pc = "within"
                   /\ LaterClusters(pool.assignments, pool.cluster_id) # {}
                THEN EnterCluster(
                         p, CHOOSE c \in LaterClusters(pool.assignments,
                                                       pool.cluster_id) :
                                \A d \in LaterClusters(pool.assignments,
                                                       pool.cluster_id) :
                                    c <= d)
                ELSE IF pool.pc = "within" /\ pool.args.allow_cross_cluster
                THEN [p EXCEPT
                         !.pc = "cross", !.cluster_id = CrossCluster,
                         !.available =
                             remaining_players(pool.args.players,
                                               MatchedBy(pool.matches))]
                ELSE [p EXCEPT !.pc = "returned", !.available = <<>>]
    /\ UNCHANGED not_pool

NextPasses == FindMatchesBegin \/ Pass \/ NextLoop

SpecPasses == Init /\ [][NextPasses]_vars

\* the interpreter runs the next pass of a loop it is in
SpecPassesFair == SpecPasses /\ WF_vars(Pass) /\ WF_vars(NextLoop)

----------------------------------------------------------------------------
(* Calls of the methods of an IRTModel() *)

\* IRTModel().compute_confidence(success_rate, fail_rate)
ComputeConfidence ==
    /\ \E success_rate \in ConfidenceRates, fail_rate \in ConfidenceRates :
        irt' = [method |-> "compute_confidence",
                args |-> <<success_rate, fail_rate>>,
                result |-> compute_confidence(success_rate, fail_rate)]
    /\ UNCHANGED not_irt

\* IRTModel().apply_learning_decay(theta, sessions_played)
ApplyLearningDecay ==
    /\ \E theta \in DecayThetas, sessions_played \in DecaySessions :
        irt' = [method |-> "apply_learning_decay",
                args |-> <<theta, sessions_played>>,
                result |-> apply_learning_decay(theta, sessions_played)]
    /\ UNCHANGED not_irt

NextIrt == ComputeConfidence \/ ApplyLearningDecay

SpecIrt == Init /\ [][NextIrt]_vars

----------------------------------------------------------------------------
(* algorithms/matchmaking.py, main, function "find_best_match": one run of  *)
(* the script; previous_beta and momentum are those of _dda_instance        *)

MainFindBestMatch ==
    /\ ~best.called
    /\ \E n \in 1..MaxPlayers, m \in 1..MaxCentroids :
        \E data_points \in [1..n -> DataPoints],
           centroids \in [1..m -> Centroids],
           player_index \in 0..(n - 1),
           counts \in {<<0, 0>>, <<5, 1>>} :
            \E r \in {find_best_match(previous_beta, momentum, player_index,
                                       data_points, centroids, 0,
                                       counts[1], counts[2])} :
                /\ previous_beta' = r.previous_beta
                /\ momentum' = r.momentum
                /\ best' = [called |-> TRUE, data_points |-> data_points,
                            centroids |-> centroids,
                            success_count |-> counts[1],
                            fail_count |-> counts[2],
                            player_index |-> r.player_index,
                            match_index |-> r.match_index,
                            match_score |-> r.match_score,
                            cluster |-> r.cluster]
    /\ UNCHANGED not_best

SpecBestMatch == Init /\ [][MainFindBestMatch]_vars

----------------------------------------------------------------------------
(* A call of kmeans_from_irt, its loops taken a pass at a time *)

\* kmeans_from_irt(irt_data, k, max_iter), lines 140-157 and
\* init_kmeans_plus_plus up to its first centroid
KMeansStarts(irt_data, k, max_iter) ==
    LET data == normalize_data([j \in DOMAIN irt_data |->
                                   feature_vector(irt_data[j])])
    IN  IF irt_data = <<>>
        THEN {[NoKMeans EXCEPT !.pc = "done", !.raised = TRUE,
                               !.k = k, !.max_iter = max_iter]}
        ELSE {[pc |-> IF k >= Len(data) \/ k <= 1
                      THEN "iterate" ELSE "seed",
               irt_data |-> irt_data, k |-> k,
               max_iter |-> max_iter,
               data_points |-> data,
               centroids |-> IF k >= Len(data) THEN data ELSE <<first>>,
               assignments |-> <<>>,
               iteration |-> 0, raised |-> FALSE,
               ended |-> "", converged_after |-> 0] :
                 first \in {data[j] : j \in DOMAIN data}}

KMeansFromIrt ==
    /\ kmeans.pc = "idle"
    /\ \E irt_data \in IrtLists, k \in 1..MaxK, max_iter \in MaxIters :
           kmeans' \in KMeansStarts(irt_data, k, max_iter)
    /\ UNCHANGED not_kmeans

\* init_kmeans_plus_plus, one pass of `while len(centroids) < k`
SeedCentroid ==
    /\ kmeans.pc = "seed"
    /\ \E seed \in NextSeeds(kmeans.data_points, kmeans.centroids) :
        IF TotalMinSquaredDistance(kmeans.data_points, kmeans.centroids) = 0
        THEN kmeans' = [kmeans EXCEPT
                           !.pc = "iterate",
                           !.centroids = IF seed = <<>> THEN @
                                         ELSE Append(@, seed)]
        ELSE kmeans' = [kmeans EXCEPT
                           !.pc = IF Len(kmeans.centroids) + 1 < kmeans.k
                                  THEN "seed" ELSE "iterate",
                           !.centroids = Append(@, seed)]
    /\ UNCHANGED not_kmeans

\* kmeans_from_irt, one pass of `for iteration in range(max_iter)`, and
\* the return when it is the last; tol is 1e-4, tol * tol one unit of
\* squared distance.  ended is the way the loop was left: the break at
\* line 193, the break at line 199, or the else branch of the for loop.
Iterate ==
    /\ kmeans.pc = "iterate"
    /\ \E assignments \in {assign_points(kmeans.data_points,
                                          kmeans.centroids)} :
        \E new_centroids \in NewCentroids(kmeans.data_points, assignments,
                                          kmeans.k) :
            \E shift \in {shift_sq(kmeans.centroids, new_centroids)} :
                kmeans' =
                    IF shift < 1
                    THEN [kmeans EXCEPT
                             !.pc = "done",
                             !.assignments = assignments,
                             !.ended = "strict",
                             !.converged_after = kmeans.iteration + 1]
                    ELSE [kmeans EXCEPT
                             !.pc = IF \/ kmeans.iteration > 5 /\ shift < 10
                                       \/ kmeans.iteration + 1
                                              >= kmeans.max_iter
                                    THEN "done" ELSE "iterate",
                             !.assignments = assignments,
                             !.centroids = new_centroids,
                             !.iteration =
                                 IF \/ kmeans.iteration > 5 /\ shift < 10
                                    \/ kmeans.iteration + 1
                                           >= kmeans.max_iter
                                 THEN @ ELSE @ + 1,
                             !.ended =
                                 IF kmeans.iteration > 5 /\ shift < 10
                                 THEN "relaxed"
                                 ELSE IF kmeans.iteration + 1
                                            >= kmeans.max_iter
                                 THEN "max_iter" ELSE "",
                             !.converged_after =
                                 IF \/ kmeans.iteration > 5 /\ shift < 10
                                    \/ kmeans.iteration + 1
                                           >= kmeans.max_iter
                                 THEN kmeans.iteration + 1 ELSE 0]
    /\ UNCHANGED not_kmeans

NextKMeans == KMeansFromIrt \/ SeedCentroid \/ Iterate

SpecKMeans == Init /\ [][NextKMeans]_vars

----------------------------------------------------------------------------
(* Multiplayer_Based.py: calls of cluster_players on the matchmaker of      *)
(* Tester/backend.py, MultiplayerMatchmaker().  A call that misses the      *)
(* cache runs kmeans_from_irt, whose loop passes are the actions            *)
(* SeedCentroid and Iterate above.                                          *)

\* cluster_players, lines 117-138: effective_k, the cache lookup, and on a
\* miss the call of kmeans_from_irt up to its first centroid
ClusterPlayers ==
    /\ cluster.pc = "idle"
    /\ cluster.calls < MaxClusterCalls
    /\ \E irt_data \in ClusterBatches :
        LET hits == {e \in cluster.cache : e.key = cache_key(irt_data)}
        IN  IF hits # {}
            THEN /\ \E e \in hits :
                        cluster' = [cluster EXCEPT
                                       !.calls = @ + 1,
                                       !.batch = irt_data,
                                       !.returned = TRUE,
                                       !.raised = FALSE,
                                       !.hit = TRUE,
                                       !.cached_for = e.batch,
                                       !.result = e.result]
                 /\ UNCHANGED kmeans
            ELSE /\ kmeans' \in KMeansStarts(
                                    irt_data,
                                    effective_k(K_CLUSTERS_DEFAULT,
                                                Len(irt_data)),
                                    MaxIter)
                 /\ cluster' = [cluster EXCEPT
                                    !.pc = "clustering",
                                    !.calls = @ + 1,
                                    !.batch = irt_data,
                                    !.returned = FALSE,
                                    !.raised = FALSE,
                                    !.hit = FALSE,
                                    !.cached_for = <<>>,
                                    !.result = <<>>]
    /\ UNCHANGED not_cluster

\* cluster_players, lines 140-143: kmeans_from_irt has returned (or raised,
\* and nothing is cached); store the result and return it
ClusterStore ==
    /\ cluster.pc = "clustering"
    /\ kmeans.pc = "done"
    /\ cluster' =
           IF kmeans.raised
           THEN [cluster EXCEPT !.pc = "idle", !.raised = TRUE]
           ELSE LET clustering_result ==
                        [centroids |-> kmeans.centroids,
                         assignments |-> kmeans.assignments,
                         cluster_count |-> kmeans.k]
                IN  [cluster EXCEPT
                        !.pc = "idle",
                        !.returned = TRUE,
                        !.result = clustering_result,
                        !.cache = @ \cup {[key |-> cache_key(cluster.batch),
                                            batch |-> cluster.batch,
                                            result |-> clustering_result]}]
    /\ UNCHANGED kmeans
    /\ UNCHANGED not_cluster

NextCluster ==
    \/ ClusterPlayers
    \/ SeedCentroid
    \/ Iterate
    \/ ClusterStore

SpecCluster == Init /\ [][NextCluster]_vars

----------------------------------------------------------------------------
(* Puzzel_Based.py: calls of run_puzzle_adjustment for several players on   *)
(* the one module; previous_beta and momentum are those of _dda_system.     *)
(* puzzle.alone[u] is the module as it would stand had only the calls for   *)
(* player u been made.                                                      *)

RunPuzzleAdjustment ==
    /\ puzzle.calls < MaxPuzzleCalls
    /\ \E args \in PuzzleRequests :
        \E r \in {run_puzzle_adjustment(
                      [previous_beta |-> previous_beta,
                       momentum |-> momentum,
                       last_inputs |-> puzzle.last_inputs,
                       last_result |-> puzzle.last_result], args)},
           a \in {run_puzzle_adjustment(puzzle.alone[args.user_id], args)} :
            /\ previous_beta' = r.module.previous_beta
            /\ momentum' = r.module.momentum
            /\ puzzle' =
                   [last_inputs |-> r.module.last_inputs,
                    last_result |-> r.module.last_result,
                    calls |-> puzzle.calls + 1,
                    alone |-> [puzzle.alone EXCEPT
                                  ![args.user_id] = a.module],
                    called |-> TRUE,
                    cached |-> (input_key(args) = puzzle.last_inputs
                                /\ puzzle.last_result # NoResult),
                    args |-> args,
                    result |-> r.result,
                    alone_result |-> a.result]
    /\ UNCHANGED not_puzzle

NextPuzzle == RunPuzzleAdjustment

SpecPuzzle == Init /\ [][NextPuzzle]_vars

----------------------------------------------------------------------------
(* Tester/backend.py: the request threads of the Flask server call          *)
(* run_puzzle_adjustment, which takes no lock.  The module's _last_inputs   *)
(* and _last_result are puzzle.last_inputs and puzzle.last_result, its      *)
(* _dda_system previous_beta and momentum.  The steps are cut at function   *)
(* calls, where the interpreter can switch threads.                         *)

\* run_puzzle_adjustment, lines 53-87: clamp the arguments, build
\* input_key, call _last_inputs.get('key')
PuzzleLookup(t) ==
    /\ puzzle_threads.of[t].pc = "idle"
    /\ puzzle_threads.calls < MaxThreadPuzzleCalls
    /\ \E args \in ThreadPuzzleRequests :
        puzzle_threads' =
            [puzzle_threads EXCEPT
                !.calls = @ + 1,
                !.of[t] = [NoPuzzleThread EXCEPT
                              !.pc = "check",
                              !.input_key = input_key(args),
                              !.key_read = puzzle.last_inputs]]
    /\ UNCHANGED <<previous_beta, momentum, puzzle>>
    /\ UNCHANGED not_puzzle_threads

\* lines 87-88: compare the key that was read, test _last_result and
\* return it, or go on
PuzzleCheck(t) ==
    /\ puzzle_threads.of[t].pc = "check"
    /\ puzzle_threads' =
           [puzzle_threads EXCEPT
               !.of[t] =
                   IF /\ @.input_key = @.key_read
                      /\ puzzle.last_result # NoResult
                   THEN [@ EXCEPT !.pc = "idle", !.returned = TRUE,
                                  !.cached = TRUE,
                                  !.result = puzzle.last_result,
                                  !.computed_for =
                                      puzzle_threads.result_for]
                   ELSE [@ EXCEPT !.pc = "adjust"]]
    /\ UNCHANGED <<previous_beta, momentum, puzzle>>
    /\ UNCHANGED not_puzzle_threads

\* lines 91-113: irt_probability and _dda_system.adjust_difficulty
PuzzleAdjust(t) ==
    /\ puzzle_threads.of[t].pc = "adjust"
    /\ \E r \in {run_puzzle_adjustment_uncached(
                      [previous_beta |-> previous_beta,
                       momentum |-> momentum,
                       last_inputs |-> NoKey, last_result |-> NoResult],
                      puzzle_threads.of[t].input_key)} :
        /\ previous_beta' = r.module.previous_beta
        /\ momentum' = r.module.momentum
        /\ puzzle_threads' =
               [puzzle_threads EXCEPT
                   !.of[t] = [@ EXCEPT !.pc = "store",
                                       !.dda_result = r.result.New_Beta,
                                       !.result = r.result]]
    /\ UNCHANGED puzzle
    /\ UNCHANGED not_puzzle_threads

\* lines 116-161: build combined_result, store the key and the result,
\* return
PuzzleStore(t) ==
    /\ puzzle_threads.of[t].pc = "store"
    /\ puzzle' = [puzzle EXCEPT
                     !.last_inputs = puzzle_threads.of[t].input_key,
                     !.last_result = puzzle_threads.of[t].result]
    /\ puzzle_threads' =
           [puzzle_threads EXCEPT
               !.result_for = puzzle_threads.of[t].input_key,
               !.of[t] = [@ EXCEPT !.pc = "idle", !.returned = TRUE,
                                   !.computed_for =
                                       puzzle_threads.of[t].input_key]]
    /\ UNCHANGED <<previous_beta, momentum>>
    /\ UNCHANGED not_puzzle_threads

NextPuzzleThreads ==
    \E t \in Threads :
        PuzzleLookup(t) \/ PuzzleCheck(t) \/ PuzzleAdjust(t) \/ PuzzleStore(t)

SpecPuzzleThreads == Init /\ [][NextPuzzleThreads]_vars

----------------------------------------------------------------------------
(* Tester/backend.py: the request threads of the Flask server call          *)
(* dda_system.adjust_difficulty on the one DDASystem of the module; the     *)
(* method takes no lock.  A thread can be switched out between the methods  *)
(* adjust_difficulty calls, which is where the steps below are cut.         *)

\* adjust_difficulty, lines 246-261: sanitize the arguments, read the
\* snapshot (or raise), compute the gated adjustment
ThreadBegin(t) ==
    /\ threads[t].pc = "idle"
    /\ \E req \in ThreadRequests :
        threads' =
            [threads EXCEPT ![t] =
                IF SnapshotRaises(req.irt_output)
                THEN [@ EXCEPT !.pc = "done", !.request = req,
                               !.raised = TRUE]
                ELSE [@ EXCEPT
                         !.pc = "momentum", !.request = req,
                         !.beta_old = sanitize_beta(req.beta_old),
                         !.adjustment =
                             gated_adjustment(
                                 extract_irt_snapshot(req.irt_output),
                                 req.success_count, req.fail_count,
                                 req.target_performance,
                                 req.adjustment_rate)]]
    /\ UNCHANGED <<previous_beta, momentum>>
    /\ UNCHANGED not_threads

\* adjust_difficulty, line 262: self._apply_momentum(beta_adjustment)
ThreadApplyMomentum(t) ==
    /\ threads[t].pc = "momentum"
    /\ momentum' = next_momentum(momentum, threads[t].adjustment)
    /\ threads' =
           [threads EXCEPT ![t] =
               [@ EXCEPT !.pc = "slow",
                         !.with_momentum =
                             apply_momentum(momentum,
                                            threads[t].adjustment)]]
    /\ UNCHANGED previous_beta
    /\ UNCHANGED not_threads

\* adjust_difficulty, lines 263-269: self._slow_if_recently_stable reads
\* self._previous_beta; proposal, step cap and guard follow
ThreadPropose(t) ==
    /\ threads[t].pc = "slow"
    /\ threads' =
           [threads EXCEPT ![t] =
               [@ EXCEPT
                   !.pc = "record",
                   !.beta_new =
                       preserve_on_perfect_performance(
                           threads[t].beta_old,
                           cap_step(threads[t].beta_old,
                                    propose_beta(
                                        threads[t].beta_old,
                                        slow_if_recently_stable(
                                            previous_beta,
                                            threads[t].beta_old,
                                            threads[t].with_momentum))),
                           extract_irt_snapshot(
                               threads[t].request.irt_output).probability)]]
    /\ UNCHANGED <<previous_beta, momentum>>
    /\ UNCHANGED not_threads

\* adjust_difficulty, lines 271-291: self._previous_beta = beta_new, and
\* the response
ThreadRecord(t) ==
    /\ threads[t].pc = "record"
    /\ previous_beta' = threads[t].beta_new
    /\ threads' =
           [threads EXCEPT ![t] =
               [@ EXCEPT !.pc = "done",
                         !.response_beta_new = Round3(threads[t].beta_new)]]
    /\ UNCHANGED momentum
    /\ UNCHANGED not_threads

NextThreads ==
    \E t \in Threads :
        \/ ThreadBegin(t)
        \/ ThreadApplyMomentum(t)
        \/ ThreadPropose(t)
        \/ ThreadRecord(t)

SpecThreads == Init /\ [][NextThreads]_vars

----------------------------------------------------------------------------
(* The last call, as the claims speak of it *)

Called == last.called /\ ~last.raised

LastSnapshot == extract_irt_snapshot(last.request.irt_output)

\* target_performance - probability of the last call
LastGap == last.request.target_performance - LastSnapshot.probability

\* the previous difficulty the last call worked with
LastBetaOld == sanitize_beta(last.request.beta_old)

InRange(beta) == BETA_MIN <= beta /\ beta <= BETA_MAX

\* C1: after any sequence of adjust_difficulty calls, whatever the inputs
\* (a previous difficulty outside [0.1, 1.0] included), the returned
\* beta_new and the recorded last-applied difficulty lie in [0.1, 1.0].
C1_BetaInRange ==
    /\ previous_beta # None => InRange(previous_beta)
    /\ Called => InRange(last.response_beta_new)

\* the second call of a sequence, made with a previous difficulty outside
\* the range
C1_Witness ==
    /\ Called
    /\ calls = 2
    /\ ~InRange(last.request.beta_old)
    /\ previous_beta \in {BETA_MIN, BETA_MAX}

\* C2, as claimed: with a previous difficulty in [0.1, 1.0] the returned
\* difficulty differs from it by at most 0.15.
C2_ReturnedStepCap ==
    Called /\ InRange(last.request.beta_old)
        => Abs(last.response_beta_new - last.request.beta_old)
               <= MAX_BETA_STEP

\* C2, amended: with a previous difficulty in [0.1, 1.0] the difficulty
\* recorded as last applied differs from it by at most 0.15, and the
\* returned difficulty, which is the recorded one rounded to 3 places,
\* by at most 0.1505.
C2_StepCap ==
    Called /\ InRange(last.request.beta_old)
        => /\ Abs(previous_beta - last.request.beta_old) <= MAX_BETA_STEP
           /\ last.response_beta_new = Round3(previous_beta)
           /\ Abs(last.response_beta_new - last.request.beta_old)
                  <= MAX_BETA_STEP + 5

\* a call whose step was cut to 0.15 and whose returned difficulty is
\* more than 0.15 away from the previous difficulty
C2_Witness ==
    /\ Called
    /\ InRange(last.request.beta_old)
    /\ Abs(previous_beta - last.request.beta_old) = MAX_BETA_STEP
    /\ Abs(last.response_beta_new - last.request.beta_old) > MAX_BETA_STEP

\* the perfect-performance case: probability >= 0.99, previous difficulty
\* >= 0.5, and the capped update lower than the previous difficulty
PerfectCase ==
    /\ Called
    /\ LastSnapshot.probability >= 9900
    /\ last.request.beta_old >= 5000
    /\ last.capped < LastBetaOld

\* C3, as claimed: in the perfect-performance case adjust_difficulty
\* returns exactly the previous difficulty and records it as last applied.
C3_ReturnsPreviousExactly ==
    PerfectCase => /\ last.response_beta_new = last.request.beta_old
                   /\ previous_beta = last.request.beta_old

\* C3, amended: in the perfect-performance case adjust_difficulty records
\* the previous difficulty clamped to [0.1, 1.0] as last applied and
\* returns it rounded to 3 places.
C3_PerfectGuard ==
    PerfectCase => /\ previous_beta = clamp_beta(last.request.beta_old)
                   /\ last.response_beta_new
                          = Round3(clamp_beta(last.request.beta_old))

\* the guard held back a decrease on a warmed controller, and the value
\* returned is not the previous difficulty that was passed in
C3_Witness ==
    /\ PerfectCase
    /\ calls = 2
    /\ last.pre_momentum # 0
    /\ last.response_beta_new # last.request.beta_old

\* the probability is below the target by at least the threshold
Underperforms == LastGap >= stability_threshold

\* the probability is above the target by at least the threshold, and
\* below 0.99
Overperforms ==
    /\ -LastGap >= stability_threshold
    /\ LastSnapshot.probability < 9900

LastDrive == Mul(last.request.adjustment_rate, Abs(LastGap))

Replay(probability, target_performance) ==
    adjust_difficulty(
        last.pre_previous_beta, last.pre_momentum, last.request.beta_old,
        Dict([f \in DOMAIN last.request.irt_output.fields |->
                 IF f = "probability" THEN probability
                 ELSE last.request.irt_output.fields[f]]),
        last.request.success_count, last.request.fail_count,
        target_performance, last.request.adjustment_rate)

\* the perfect-performance guard replaces the capped update of a call
GuardFires(r, probability) ==
    preserve_on_perfect_performance(LastBetaOld, r.capped, probability)
        # r.capped

\* the other calls to compare the last call with: the probability or the
\* target changed, the rest kept
Variants ==
    {v \in Probabilities \X Targets :
        /\ "probability" \in DOMAIN last.request.irt_output.fields
        /\ \/ v[1] = LastSnapshot.probability
           \/ v[2] = last.request.target_performance}

\* C5, as claimed: of two calls from the same controller state that differ
\* in the probability or in the target only, the one with the larger gap
\* returns a difficulty change that is not smaller.
C5_MonotoneAlways ==
    Called =>
        \A v \in Variants :
            LET other == Replay(v[1], v[2])
            IN  /\ v[2] - v[1] >= LastGap
                    => other.response_beta_new >= last.response_beta_new
                /\ v[2] - v[1] <= LastGap
                    => other.response_beta_new <= last.response_beta_new

\* C5, amended: the same, unless the perfect-performance guard fires in
\* the call with the smaller gap and not in the call with the larger gap.
C5_Monotone ==
    Called =>
        \A v \in Variants :
            \E other \in {Replay(v[1], v[2])} :
                LET fires == GuardFires(last, LastSnapshot.probability)
                    firesOther == GuardFires(other, v[1])
                IN  /\ v[2] - v[1] >= LastGap /\ (fires => firesOther)
                        => other.response_beta_new >= last.response_beta_new
                    /\ v[2] - v[1] <= LastGap /\ (firesOther => fires)
                        => other.response_beta_new <= last.response_beta_new

\* on a warmed controller, a call with a larger gap than the last one
\* returns a strictly larger change
C5_Witness ==
    /\ Called
    /\ calls = 2
    /\ \E v \in Variants :
        /\ v[2] - v[1] > LastGap
        /\ Replay(v[1], v[2]).response_beta_new > last.response_beta_new

\* C6: in a call with |target - probability| < stabilityThreshold the
\* pre-momentum adjustment is 0, and the momentum after the call is
\* momentumFactor times the momentum before it.
C6_StabilityGate ==
    Called /\ Abs(LastGap) < stability_threshold
        => /\ last.adjustment = 0
           /\ momentum = Mul(momentum_factor, last.pre_momentum)

\* a gated call on a controller that carries momentum, for a player with
\* an ability, counts and a rate that would otherwise move the difficulty
C6_Witness ==
    /\ Called
    /\ Abs(LastGap) < stability_threshold
    /\ LastGap # 0
    /\ last.pre_momentum # 0
    /\ momentum # 0
    /\ last.request.adjustment_rate = Scale
    /\ LastSnapshot.theta # 0

\* the groups of the output, as sets of positions of the input list
Groups == {matchmaking.matches[i] : i \in DOMAIN matchmaking.matches}

\* C7: find_matches places no player of the input list, named by its
\* position, in two returned groups nor twice in one group, the passes
\* within the clusters and the cross-cluster pass taken together.
C7_NoPlayerTwice ==
    matchmaking.called =>
        /\ \A i \in DOMAIN matchmaking.matches :
               Cardinality(Members(matchmaking.matches[i].players))
                   = Len(matchmaking.matches[i].players)
        /\ \A i, j \in DOMAIN matchmaking.matches :
               i # j => Members(matchmaking.matches[i].players)
                            \cap Members(matchmaking.matches[j].players) = {}

\* an output with a group formed inside a cluster and a group formed by
\* the cross-cluster pass
C7_Witness ==
    /\ matchmaking.called
    /\ matchmaking.args.match_size = 2
    /\ \E g, h \in Groups :
        /\ g.cluster # CrossCluster
        /\ h.cluster = CrossCluster

\* C8: every group find_matches returns has exactly match_size members
\* and a match_score in [0, 1], whatever match_size >= 1,
\* min_match_score and allow_cross_cluster are.
C8_GroupShape ==
    matchmaking.called =>
        \A g \in Groups :
            /\ Len(g.players) = matchmaking.args.match_size
            /\ 0 <= g.match_score
            /\ g.match_score <= 1000

\* a group of 3 whose abilities are so far apart that its score is 0,
\* let through by a min_match_score of 0
C8_Witness ==
    /\ matchmaking.called
    /\ matchmaking.args.match_size = 3
    /\ matchmaking.args.min_match_score = 0
    /\ \E g \in Groups :
        /\ g.match_score = 0
        /\ 4 * variance(g.players, matchmaking.args.players).num
               > 10000 * variance(g.players, matchmaking.args.players).den

\* a clustering call that has returned
Clustered == kmeans.pc = "done" /\ ~kmeans.raised

\* C9: whatever k and the non-empty population are, points that coincide
\* included, the clustering result holds exactly min(k, population size)
\* centroids, at least 1, and one assignment per point, each of them an
\* index into the returned centroids.
C9_CentroidCount ==
    Clustered =>
        /\ Len(kmeans.centroids) = Min(kmeans.k, Len(kmeans.irt_data))
        /\ Len(kmeans.centroids) >= 1
        /\ Len(kmeans.assignments) = Len(kmeans.irt_data)
        /\ \A j \in DOMAIN kmeans.assignments :
               /\ 0 <= kmeans.assignments[j]
               /\ kmeans.assignments[j] < Len(kmeans.centroids)

\* what two calls return and leave behind when `first` runs to its end
\* before `second` starts, on a new controller
SerialOutcome(first, second) ==
    LET r1 == adjust_difficulty(None, 0, first.beta_old, first.irt_output,
                                first.success_count, first.fail_count,
                                first.target_performance,
                                first.adjustment_rate)
        r2 == adjust_difficulty(r1.previous_beta, r1.momentum,
                                second.beta_old, second.irt_output,
                                second.success_count, second.fail_count,
                                second.target_performance,
                                second.adjustment_rate)
    IN  [first |-> <<r1.raised, r1.response_beta_new>>,
         second |-> <<r2.raised, r2.response_beta_new>>,
         previous_beta |-> r2.previous_beta,
         momentum |-> r2.momentum]

\* what the two threads returned and left behind
ThreadOutcome(a, b) ==
    [first |-> <<threads[a].raised, threads[a].response_beta_new>>,
     second |-> <<threads[b].raised, threads[b].response_beta_new>>,
     previous_beta |-> previous_beta,
     momentum |-> momentum]

\* C11: when two adjust_difficulty calls run concurrently on the one
\* DDASystem of the backend, what they return and the final momentum and
\* last-applied difficulty are those of one of the two serial orders of
\* the calls.
C11_Serializable ==
    (\A t \in Threads : threads[t].pc = "done") =>
        \/ ThreadOutcome(1, 2)
               = SerialOutcome(threads[1].request, threads[2].request)
        \/ ThreadOutcome(2, 1)
               = SerialOutcome(threads[2].request, threads[1].request)

\* C12: the result run_puzzle_adjustment returns for one player is the
\* result the same call returns in the run that has this player's calls
\* only: the calls made for other players do not change it.
C12_SessionIsolation ==
    puzzle.called => puzzle.result = puzzle.alone_result

\* the clustering features of a batch, player by player
Features(irt_data) == [j \in DOMAIN irt_data |-> feature_vector(irt_data[j])]

\* C13: cluster_players returns a cached result only when the batch has,
\* for every player in order, the clustering features (adjusted ability,
\* probability, success rate, fail rate) of the batch the cached result
\* was computed for.
C13_CacheHitSameFeatures ==
    (cluster.returned /\ cluster.hit) =>
        Features(cluster.batch) = Features(cluster.cached_for)

\* the last request with its counts clamped to 0, its previous difficulty
\* to [0.1, 1.0] and its probability to [0, 1]
Sanitized ==
    [last.request EXCEPT
        !.success_count = Max(0, @),
        !.fail_count = Max(0, @),
        !.beta_old = Max(BETA_MIN, Min(BETA_MAX, @)),
        !.irt_output.fields =
            [f \in DOMAIN @ |->
                IF f = "probability" THEN Max(0, Min(Scale, @[f]))
                ELSE @[f]]]

\* C14: a call with a negative count, a previous difficulty outside
\* [0.1, 1.0] or a probability outside [0, 1] returns the same beta_new and
\* leaves the same momentum and last-applied difficulty as the call with
\* these inputs clamped, made from the same controller state.
C14_Sanitization ==
    Called =>
        LET clamped == adjust_difficulty(
                           last.pre_previous_beta, last.pre_momentum,
                           Sanitized.beta_old, Sanitized.irt_output,
                           Sanitized.success_count, Sanitized.fail_count,
                           Sanitized.target_performance,
                           Sanitized.adjustment_rate)
        IN  /\ last.response_beta_new = clamped.response_beta_new
            /\ previous_beta = clamped.previous_beta
            /\ momentum = clamped.momentum

\* the controller stands where it stood before the last call
StateKept ==
    previous_beta = last.pre_previous_beta /\ momentum = last.pre_momentum

\* the last call returned and left what the call with the snapshot
\* `fields` does, from the same controller state
SameAsWith(fields) ==
    LET other == adjust_difficulty(
                     last.pre_previous_beta, last.pre_momentum,
                     last.request.beta_old, Dict(fields),
                     last.request.success_count, last.request.fail_count,
                     last.request.target_performance,
                     last.request.adjustment_rate)
    IN  /\ ~last.raised
        /\ last.response_beta_new = other.response_beta_new
        /\ previous_beta = other.previous_beta
        /\ momentum = other.momentum

C16_MatchIsAnotherPlayer ==
    (best.called /\ best.match_index # None) =>
        best.match_index # best.player_index

\* the total squared distance of the points to their assigned centroids,
\* each point being assigned to the nearest of the centroids
TotalSquaredDistance(km) == TotalMinSquaredDistance(km.data_points, km.centroids)

\* C17: a pass of the k-means loop that replaces the centroids, be it with
\* a random data point for an empty cluster, does not increase the total
\* squared distance of the points to their assigned centroids.
C17_DistanceNeverIncreases ==
    [][(kmeans.pc = "iterate" /\ kmeans'.centroids # kmeans.centroids)
          => TotalSquaredDistance(kmeans')
                 <= TotalSquaredDistance(kmeans)]_vars

\* a pass reseeded an empty cluster of a run with as many centroids as
\* points at most, replaced the centroids, and the loop goes on
C17_Witness ==
    /\ kmeans.pc = "iterate"
    /\ kmeans.iteration >= 1
    /\ kmeans.k <= Len(kmeans.data_points)
    /\ \E c \in 0..(kmeans.k - 1) :
           \A j \in DOMAIN kmeans.assignments : kmeans.assignments[j] # c
    /\ TotalSquaredDistance(kmeans) > 0

\* C18: for match_size 2 the match_score of every returned group is
\* 1 - min(d, 1), d being the absolute difference of the abilities of its
\* two members: the value _find_best_group_fast compared with
\* min_match_score.
C18_PairScoreIsAcceptanceScore ==
    (matchmaking.called /\ matchmaking.args.match_size = 2) =>
        \A g \in Groups :
            g.match_score
                = 10 * (100 - Min(Abs(matchmaking.args.players[g.players[1]]
                                      - matchmaking.args.players[g.players[2]]),
                                  100))

\* the smallest absolute ability difference among all pairs of candidates,
\* neighbours or not
MinPairDiff(candidates, thetas) ==
    LET diffs == UNION {{Abs(thetas[candidates[i]] - thetas[candidates[j]]) :
                            j \in DOMAIN candidates \ {i}} :
                        i \in DOMAIN candidates}
    IN  CHOOSE d \in diffs : \A e \in diffs : d <= e

\* the first pair of neighbours that differ by d, if there is one
FirstPairWith(candidates, thetas, d) ==
    LET at == {i \in 1..(Len(candidates) - 1) :
                  NeighbourDiff(candidates, thetas, i) = d}
    IN  IF at = {} THEN <<>>
        ELSE LET i == CHOOSE i \in at : \A j \in at : i <= j
             IN  <<candidates[i], candidates[i + 1]>>

\* C19: in every pass for match_size 2 the pair considered is the first
\* pair of neighbours, in ascending ability, whose difference is the
\* smallest difference among all pairs of the candidates of the pass, and
\* the pass accepts it if and only if 1 - min(difference, 1) >=
\* min_match_score.
C19_MinimumPairSelected ==
    (pool.step = "pass" /\ pool.args.match_size = 2) =>
        LET d == MinPairDiff(pool.before, pool.args.players)
            pair == FirstPairWith(pool.before, pool.args.players, d)
        IN  /\ pair # <<>>
            /\ pool.group = IF 100 - Min(d, 100) >= pool.args.min_match_score
                            THEN pair
                            ELSE <<>>

\* a pass over three candidates whose two pairs of neighbours tie, and
\* that accepted a pair
C19_Witness ==
    /\ pool.step = "pass"
    /\ pool.args.match_size = 2
    /\ Len(pool.before) = 3
    /\ NeighbourDiff(pool.before, pool.args.players, 1)
           = NeighbourDiff(pool.before, pool.args.players, 2)
    /\ pool.group # <<>>

\* a pass either removes the group of match_size candidates it accepted
\* and appends it to the matches, or drops the first candidate, one of the
\* lowest ability, and appends nothing
PassShrinks ==
    (pool'.step = "pass" /\ pool' # pool) =>
        \/ /\ Len(pool'.group) = pool.args.match_size
           /\ Members(pool'.group) \subseteq Members(pool.available)
           /\ pool'.available
                  = Without(pool.available, Members(pool'.group))
           /\ Len(pool'.available)
                  = Len(pool.available) - pool.args.match_size
           /\ Len(pool'.matches) = Len(pool.matches) + 1
           /\ pool'.matches[Len(pool'.matches)].players = pool'.group
        \/ /\ pool'.group = <<>>
           /\ pool'.available = Tail(pool.available)
           /\ \A i \in Members(pool.available) :
                  pool.args.players[Head(pool.available)]
                      <= pool.args.players[i]
           /\ pool'.matches = pool.matches

\* C20: find_matches terminates for every player list, match_size >= 1
\* and min_match_score: each pass of the loop within a cluster and of the
\* cross-cluster loop removes an accepted group of match_size candidates or
\* drops exactly the candidate of lowest ability, and every call that has
\* begun returns.
C20_Terminates ==
    /\ [][PassShrinks]_vars
    /\ (pool.pc # "idle") ~> (pool.pc = "returned")

\* a call for pairs that has returned one match, made by the cross-cluster
\* loop, after the loop within a cluster of two players dropped a candidate
C20_Witness ==
    /\ pool.pc = "returned"
    /\ pool.args.match_size = 2
    /\ Len(pool.matches) = 1
    /\ pool.matches[1].cluster = CrossCluster
    /\ \E i \in DOMAIN pool.assignments :
           \E j \in DOMAIN pool.assignments \ {i} :
               pool.assignments[i] = pool.assignments[j]

\* C21: in the result of kmeans_from_irt every point's assignment is the
\* index of the returned centroid nearest to it by squared distance, the
\* lowest index on ties, whichever way the loop ended.
C21_AssignedToNearestReturned ==
    (kmeans.pc = "done" /\ ~kmeans.raised) =>
        kmeans.assignments
            = assign_points(kmeans.data_points, kmeans.centroids)

\* C22: kmeans_from_irt stops at the first pass whose summed squared
\* centroid shift is below tol squared or, after iteration 5, below 10
\* times tol squared, and otherwise after max_iter passes; the result of a
\* run that used up max_iter reports it: its converged_after is none of
\* the values 1..max_iter that a run that converged returns.
C22_ReportsNonConvergence ==
    (kmeans.pc = "done" /\ kmeans.ended = "max_iter") =>
        kmeans.converged_after \notin 1..kmeans.max_iter

\* the last call was near the target: |target - probability| is below the
\* stability threshold
NearTarget == Called /\ Abs(LastGap) < stability_threshold

\* C23, as claimed: a call with |target - probability| below the stability
\* threshold returns the previous difficulty (as sanitized), in every
\* controller state that earlier calls lead to.
C23_NearTargetNoChange ==
    NearTarget => last.beta_new = LastBetaOld

\* C23, amended: a call near the target on a controller without momentum
\* returns the previous difficulty, clamped to [0.1, 1.0] and rounded to 3
\* places, and leaves the momentum zero; on a controller with momentum the
\* difficulty stays or moves the way the momentum points.
C23_NearTargetFollowsMomentum ==
    NearTarget =>
        /\ last.pre_momentum = 0 =>
               /\ last.beta_new = LastBetaOld
               /\ last.response_beta_new = Round3(LastBetaOld)
               /\ momentum = 0
        /\ last.pre_momentum > 0 => last.beta_new >= LastBetaOld
        /\ last.pre_momentum < 0 => last.beta_new <= LastBetaOld

\* a second call near the target, with a gap and at rate 1.0, on a
\* controller that the first call left without momentum
C23_Witness ==
    /\ NearTarget
    /\ calls = 2
    /\ last.pre_momentum = 0
    /\ LastGap # 0
    /\ last.request.adjustment_rate = Scale
    /\ last.beta_new = LastBetaOld

\* C24: compute_confidence returns a value in [0, 1] that is 1.0 when the
\* success rate and the fail rate differ by 1, and lower than 1.0 when the
\* two rates are equal or differ by no more than 0.05.
C24_ConfidenceOfDivergingRates ==
    irt.method = "compute_confidence" =>
        /\ irt.result \in 0..Scale
        /\ Abs(irt.args[1] - irt.args[2]) = Scale => irt.result = Scale
        /\ Abs(irt.args[1] - irt.args[2]) <= 500 => irt.result < Scale

\* C30: for every ability in [-3, 3] and every sessions_played >= 0,
\* apply_learning_decay returns a value of the sign of the ability, or
\* zero, whose magnitude is not larger than the ability's.
C30_DecayShrinksTowardZero ==
    irt.method = "apply_learning_decay" =>
        /\ irt.args[1] >= 0 => irt.result \in 0..irt.args[1]
        /\ irt.args[1] <= 0 => irt.result \in irt.args[1]..0

\* whether the last call multiplied its adjustment by 0.4
LastDamped == recently_stable(last.pre_previous_beta, LastBetaOld)

\* C25: the 0.4 stability damping is never applied on the first call of a
\* controller, and it is applied on every later call of a caller that
\* passes each returned difficulty as the previous difficulty of the next
\* call.
C25_DampedAfterFirstCall ==
    Called => (LastDamped <=> calls > 1)

\* a fed-back call, damped, whose previous difficulty, the returned
\* rounded one, is not the recorded last-applied difficulty
C25_Witness ==
    /\ Called
    /\ calls > 1
    /\ LastDamped
    /\ LastBetaOld # last.pre_previous_beta
    /\ last.adjustment # 0

\* the controller after one adjust_difficulty call for the sanitized
\* arguments `key`, and the difficulty the call returns
OneAdjustment(key) ==
    adjust_difficulty(previous_beta, momentum, key.beta_old,
                      Dict(irt_probability(key.theta, key.beta_old, 0,
                                           key.success_count,
                                           key.fail_count)),
                      key.success_count, key.fail_count,
                      key.target_performance, key.adjustment_rate)

\* a call of run_puzzle_adjustment: with the sanitized inputs of the call
\* before it returns that call's result and changes nothing, otherwise the
\* controller is as one adjust_difficulty call leaves it and the one
\* cached key and result are those of this call
CallKeepsOrReplaces ==
    puzzle'.calls = puzzle.calls + 1 =>
        IF puzzle.called /\ input_key(puzzle'.args) = input_key(puzzle.args)
        THEN /\ puzzle'.result = puzzle.result
             /\ momentum' = momentum
             /\ previous_beta' = previous_beta
             /\ puzzle'.last_inputs = puzzle.last_inputs
             /\ puzzle'.last_result = puzzle.last_result
        ELSE /\ momentum' = OneAdjustment(input_key(puzzle'.args)).momentum
             /\ previous_beta'
                    = OneAdjustment(input_key(puzzle'.args)).previous_beta
             /\ puzzle'.result.New_Beta
                    = OneAdjustment(input_key(puzzle'.args)).response_beta_new
             /\ puzzle'.last_inputs = input_key(puzzle'.args)
             /\ puzzle'.last_result = puzzle'.result

\* C26: a run_puzzle_adjustment call whose sanitized inputs equal those of
\* the call just before returns that call's result and leaves the
\* momentum and last-applied difficulty of the shared controller
\* unchanged; a call with a differing input runs adjust_difficulty exactly
\* once and replaces the one cached key and result.
C26_CacheHitChangesNothing == [][CallKeepsOrReplaces]_vars

\* a second call served from the cache although its ability, 4.2, is not
\* the cached 3.0, on a controller that carries momentum
C26_Witness ==
    /\ puzzle.calls = 2
    /\ puzzle.cached
    /\ puzzle.args.theta = 42000
    /\ puzzle.last_inputs.theta = 30000
    /\ momentum # 0

\* C27: under concurrent calls of run_puzzle_adjustment every result
\* served from the cache was computed for the inputs, as sanitized, of the
\* call that receives it.
C27_CachedResultIsForTheCall ==
    \A t \in Threads :
        (puzzle_threads.of[t].returned /\ puzzle_threads.of[t].cached) =>
            puzzle_threads.of[t].computed_for
                = puzzle_threads.of[t].input_key

\* the groups of the list returned, by position
ReturnedGroups == {matchmaking.matches[g] : g \in DOMAIN matchmaking.matches}

CrossGroups == {m \in ReturnedGroups : m.cluster = CrossCluster}

WithinGroups == {m \in ReturnedGroups : m.cluster # CrossCluster}

\* the clusters of the players of a group, by the assignments that
\* cluster_players returned
ClustersOf(m) == {matchmaking.assignments[i] : i \in Members(m.players)}

\* C28: a group tagged cross_cluster has no player of a group formed
\* within a cluster and has players of at least two clusters; without
\* allow_cross_cluster no group is tagged cross_cluster.
C28_CrossGroups ==
    /\ \A m \in CrossGroups :
           /\ \A w \in WithinGroups :
                  Members(m.players) \cap Members(w.players) = {}
           /\ Cardinality(ClustersOf(m)) >= 2
    /\ ~matchmaking.args.allow_cross_cluster => CrossGroups = {}

\* a cross-cluster pair returned although a cluster kept two players
\* whom its own pass refused as a pair: one of the two is in the pair
C28_Witness ==
    /\ matchmaking.called
    /\ matchmaking.args.match_size = 2
    /\ matchmaking.args.min_match_score > 0
    /\ \E m \in CrossGroups :
           /\ \E i, j \in DOMAIN matchmaking.assignments :
                  /\ i # j
                  /\ matchmaking.assignments[i] = matchmaking.assignments[j]
                  /\ {i, j} \cap Members(m.players) # {}
                  /\ i \notin UNION {Members(w.players) : w \in WithinGroups}
                  /\ j \notin UNION {Members(w.players) : w \in WithinGroups}

\* C29: with allow_cross_cluster and min_match_score <= 0, find_matches on
\* n >= match_size players returns n div match_size groups and leaves
\* fewer than match_size players out.
C29_AllButARest ==
    (/\ matchmaking.called
     /\ matchmaking.args.allow_cross_cluster
     /\ matchmaking.args.min_match_score <= 0
     /\ Len(matchmaking.args.players) >= matchmaking.args.match_size)
    => /\ Len(matchmaking.matches)
              = Len(matchmaking.args.players) \div matchmaking.args.match_size
       /\ Len(matchmaking.args.players)
              - Cardinality(MatchedBy(matchmaking.matches))
              < matchmaking.args.match_size

\* four players in clusters of three and one: a pair within the first
\* cluster, and the cross-cluster pass pairs the other two
C29_Witness ==
    /\ matchmaking.called
    /\ matchmaking.args.allow_cross_cluster
    /\ matchmaking.args.min_match_score <= 0
    /\ matchmaking.args.match_size = 2
    /\ Len(matchmaking.args.players) = 4
    /\ CrossGroups # {}
    /\ WithinGroups # {}

====
